---- MODULE Spec2Model ----
(***************************************************************************)
(* Session lifecycle and request execution of the Wispr Flow SDK:          *)
(*   WisprAuth   (src/src/core/auth.ts)   - the SessionManager             *)
(*   WisprClient (src/src/core/client.ts) - the RequestExecutor            *)
(* Every fetch() is a suspension point: an operation is split into the     *)
(* step that issues the request and the step that handles its outcome.     *)
(* Several operations are in flight at once on one event loop; the code    *)
(* between two suspension points runs atomically.                          *)
(***************************************************************************)
EXTENDS Integers, Sequences, FiniteSets, TLC

\* ------------------------------------------------------------------------
\* Bounds of the model
\* ------------------------------------------------------------------------
MaxTokens == 2     \* sessions the identity provider issues in one run
MaxSessionTokens == 3  \* ... in a run of SpecSession
MaxTicks == 2      \* clock advances in one run
MaxSeqTicks == 3   \* clock advances in one run of a single caller (SpecSeq)
MaxUuids == 4      \* identifiers minted and sent in one run
MaxBytes == 3      \* length of the byte sequences given to toBase64
MaxRetryOption == 3  \* largest maxRetries given to retry

\* two operations can be in flight at once
Procs == {1, 2}
\* two WisprClient instances share the one WisprAuth
Clients == {1, 2}

\* seconds by which the clock advances in one step
TickSteps == {1, 3539}
\* lifetimes (expires_in) the identity provider grants
Lifetimes == {3600}
\* buffers isSessionExpired is evaluated with
Buffers == {0, 1, 60, 61, 300}
\* response bodies of non-2xx responses
ErrBodies == {"bodyA", "bodyB"}

\* ------------------------------------------------------------------------
\* Program constants
\* ------------------------------------------------------------------------
DefaultBufferSeconds == 60          \* auth.ts:379  isSessionExpired(bufferSeconds = 60)
DefaultTokenRefreshBuffer == 60     \* client.ts:159 options.tokenRefreshBuffer ?? 60
ExampleTokenRefreshBuffer == 300    \* examples/02-auto-refresh.ts:52 tokenRefreshBuffer: 300
DefaultTimeoutMs == 30000           \* part_003:21 timeout: ...default(30000)
DefaultMaxRetries == 3              \* part_003:301 maxRetries = 3
DefaultBaseDelayMs == 1000          \* part_003:301 baseDelayMs = 1000
DefaultMaxDelayMs == 10000          \* part_003:301 maxDelayMs = 10000

\* tokenRefreshBuffer each client is built with: the first with the default, the
\* second as examples/02-auto-refresh.ts builds it
ClientBuffer(c) == IF c = 1 THEN DefaultTokenRefreshBuffer ELSE ExampleTokenRefreshBuffer

\* ------------------------------------------------------------------------
\* Error taxonomy (types: WisprError and its subclasses) and native errors
\* ------------------------------------------------------------------------
NoError == [class |-> "none", statusCode |-> -1, message |-> "", details |-> "undefined"]

WisprAuthError(message, details) ==
    [class |-> "WisprAuthError", statusCode |-> 401, message |-> message, details |-> details]

WisprApiError(message, statusCode, details) ==
    [class |-> "WisprApiError", statusCode |-> statusCode, message |-> message, details |-> details]

WisprValidationError(message, details) ==
    [class |-> "WisprValidationError", statusCode |-> 400, message |-> message, details |-> details]

WisprTimeoutError ==
    [class |-> "WisprTimeoutError", statusCode |-> 408, message |-> "Request timed out", details |-> "undefined"]

\* an error thrown by the runtime: fetch rejecting (TypeError), the timeout
\* signal firing (TimeoutError / AbortError), JSON.parse (SyntaxError), zod (ZodError)
NativeError(name) ==
    [class |-> name, statusCode |-> -1, message |-> name, details |-> "undefined"]

Taxonomy == {"WisprAuthError", "WisprApiError", "WisprValidationError", "WisprTimeoutError"}

\* response.ok
ResponseOk(status) == status >= 200 /\ status <= 299

\* await response.text().catch(() => 'Unknown error')
ErrorBody(o) == IF o.read = "ok" THEN o.body ELSE "Unknown error"


\* ------------------------------------------------------------------------
\* Response bodies and their schemas
\* ------------------------------------------------------------------------
\* texts of 2xx bodies: JSON null, a JSON string, and objects that conform to
\* TranscriptionResponseSchema (with each status the service reports), carry a
\* field the schema does not know, lack a required field, or carry an unknown status
JsonBodies ==
    {"null", "bodyA", "conforming", "empty", "error", "extraField", "missingField", "badStatus"}

\* a decoded JSON value: its kind, the fields status and total_time (total_time
\* stands for the required fields next to status), and a field no schema knows
JsonValue(kind, text, status, total_time, new_field) ==
    [kind |-> kind, text |-> text, status |-> status, total_time |-> total_time,
     new_field |-> new_field]

\* no value (undefined)
NoData == JsonValue("undefined", "", "undefined", "undefined", "undefined")

\* response.json() of a body that decodes
ResponseJson(body) ==
    CASE body = "null" -> JsonValue("null", "", "undefined", "undefined", "undefined")
      [] body = "conforming" -> JsonValue("object", "", "success", "number", "undefined")
      [] body = "empty" -> JsonValue("object", "", "empty", "number", "undefined")
      [] body = "error" -> JsonValue("object", "", "error", "number", "undefined")
      [] body = "extraField" -> JsonValue("object", "", "success", "number", "x")
      [] body = "missingField" -> JsonValue("object", "", "success", "undefined", "undefined")
      [] body = "badStatus" -> JsonValue("object", "", "bogus", "number", "undefined")
      [] OTHER -> JsonValue("string", body, "undefined", "undefined", "undefined")

\* z.enum(['success', 'empty', 'error', 'formatted'])
TranscriptionStatuses == {"success", "empty", "error", "formatted"}

\* Schema.safeParse(data) for the schema of warmup (WarmupResponseSchema) or of
\* transcribe (TranscriptionResponseSchema): on success the parsed value holds the
\* fields of the schema only
SafeParse(kind, data) ==
    IF kind = "warmup"
    THEN [success |-> data.kind = "object" /\ data.status # "undefined",
          data |-> [data EXCEPT !.total_time = "undefined", !.new_field = "undefined"]]
    ELSE [success |-> /\ data.kind = "object"
                      /\ data.status \in TranscriptionStatuses
                      /\ data.total_time = "number",
          data |-> [data EXCEPT !.new_field = "undefined"]]

\* ------------------------------------------------------------------------
\* What the two remote collaborators can answer
\* ------------------------------------------------------------------------
IdpStatuses == {200, 400, 401, 500}
SvcStatuses == {200, 401, 404, 500}

\* outcome of a fetch() to the identity provider: a response with a status
\* (read = "error": the body cannot be read or decoded), or a transport failure
IdpOutcomes ==
    [type : {"response"}, status : IdpStatuses, body : ErrBodies, read : {"ok", "error"}]
    \cup [type : {"netfail"}, status : {0}, body : {"bodyA"}, read : {"error"}]

\* outcome of a fetch() made by WisprClient.request: a response (read = "abort":
\* the timeout signal fires while the body is read), a transport failure, or the
\* timeout signal firing before any response
SvcOutcomes ==
    [type : {"response"}, status : SvcStatuses \ {200}, body : ErrBodies,
     read : {"ok", "abort", "error"}]
    \cup [type : {"response"}, status : {200}, body : JsonBodies, read : {"ok", "abort", "error"}]
    \cup [type : {"netfail", "abort"}, status : {0}, body : {"bodyA"}, read : {"error"}]

\* the outcomes explored together with every interleaving of the operations: one
\* per way an operation can end (the other outcomes are explored by SpecSeq)
CommonIdpOutcomes ==
    {o \in IdpOutcomes : o.body = "bodyA" /\
        \/ o.type = "netfail"
        \/ o.type = "response" /\ o.status \in {200, 400} /\ o.read = "ok"}

CommonSvcOutcomes ==
    {o \in SvcOutcomes :
        \/ o.type \in {"netfail", "abort"}
        \/ o.type = "response" /\ o.status \in {401, 500} /\ o.read = "ok" /\ o.body = "bodyA"
        \/ o.type = "response" /\ o.status = 200 /\ o.read = "ok" /\ o.body = "conforming"}

\* what the inference service answers to a transcription it has received: a
\* conforming body with one of its statuses, or nothing (transport failure)
TranscriptionOutcomes ==
    {o \in SvcOutcomes :
        \/ o.type = "netfail"
        \/ /\ o.type = "response" /\ o.status = 200 /\ o.read = "ok"
           /\ o.body \in {"conforming", "empty", "error"}}

\* the timeout signal of request() has fired in outcome o: before a response, or
\* while the body of the response was read
SignalFired(o) == o.type = "abort" \/ o.read = "abort"

\* what a request can end in when its timeout can fire at any moment: no response,
\* or a 200 or a 500 of which the body arrives or does not arrive in time
TimeoutOutcomes ==
    {o \in SvcOutcomes :
        \/ o.type = "abort"
        \/ /\ o.type = "response" /\ o.read \in {"ok", "abort"}
           /\ \/ o.status = 200 /\ o.body = "conforming"
              \/ o.status = 500 /\ o.body = "bodyA"}

\* How the identity provider treats the refresh token of a refresh request: "rotating"
\* invalidates a refresh token when it grants a refresh with it, "reusable" grants
\* every refresh, "any" is a provider of which nothing is known
RefreshPolicies == {"rotating", "reusable"}

Provider(policy, consumed) == [policy |-> policy, consumed |-> consumed]

\* outcome o is what the provider answers to a refresh request carrying token
Answers(pr, token, o) ==
    CASE pr.policy = "rotating" ->
            IF token \in pr.consumed
            THEN o.type = "response" /\ o.status = 400 /\ o.read = "ok"
            ELSE o.type = "response" /\ o.status = 200 /\ o.read = "ok"
      [] pr.policy = "reusable" -> o.type = "response" /\ o.status = 200 /\ o.read = "ok"
      [] OTHER -> TRUE

\* the provider after it has answered o to a refresh request carrying token
Consume(pr, token, o) ==
    IF pr.policy = "rotating" /\ o.type = "response" /\ o.status = 200
    THEN [pr EXCEPT !.consumed = @ \cup {token}]
    ELSE pr

\* the body of a 2xx token response (SupabaseSessionSchema): the k-th session the
\* provider issues, granted at time t for lifetime seconds
SupabaseSession(k, t, lifetime) ==
    [access_token |-> k, refresh_token |-> k, expires_in |-> lifetime, expires_at |-> t + lifetime]

\* ------------------------------------------------------------------------
\* WisprAuth: pure parts
\* ------------------------------------------------------------------------
\* Strings are numbered: the tokens the provider issues are 1, 2, ...; 0 is no
\* string; the email and the password of the caller are numbered below 0
Email == 0 - 2
Password == 0 - 1

\* AuthCredentials
AuthCredentials(email, password) == [email |-> email, password |-> password]

NoCredentials == AuthCredentials(0, 0)

Credentials == AuthCredentials(Email, Password)

\* the JSON body of the password grant
SignInBody(credentials) == [email |-> credentials.email, password |-> credentials.password]

NoBody == [email |-> 0, password |-> 0]

\* faulty variant: the relative lifetime is stored where the absolute expiry belongs
AuthSession_expiresIn(data) ==
    [accessToken |-> data.access_token,
     refreshToken |-> data.refresh_token,
     expiresAt |-> data.expires_in]

\* currentSession is <<>> (null) or <<session>>
AuthSession(data) ==
    [accessToken |-> data.access_token,
     refreshToken |-> data.refresh_token,
     expiresAt |-> data.expires_at]

\* faulty variant: strict comparison, the session is not yet expired at expiresAt - buffer
isSessionExpired_strict(session, t, bufferSeconds) ==
    IF session = <<>> THEN TRUE
    ELSE session[1].expiresAt - bufferSeconds < t

isSessionExpired(session, t, bufferSeconds) ==
    IF session = <<>> THEN TRUE
    ELSE session[1].expiresAt - bufferSeconds <= t

\* the error signInWithSupabase throws for outcome o of its fetch (o is not a readable 2xx)
SignInError(o) ==
    IF o.type = "netfail" THEN NativeError("TypeError")
    ELSE IF ~ResponseOk(o.status) THEN
        IF o.status = 400
        THEN WisprAuthError("Invalid email or password", ErrorBody(o))
        ELSE WisprAuthError("Authentication failed", ErrorBody(o))
    ELSE NativeError("ZodError")

\* the error refreshSession throws for outcome o of its fetch (o is not a readable 2xx)
RefreshError(o) ==
    IF o.type = "netfail" THEN NativeError("TypeError")
    ELSE IF ~ResponseOk(o.status) THEN
        IF o.status = 400 \/ o.status = 401
        THEN WisprAuthError("Refresh token expired or invalid. Please sign in again.", ErrorBody(o))
        ELSE WisprAuthError("Token refresh failed", ErrorBody(o))
    ELSE NativeError("ZodError")

IdpSuccess(o) == o.type = "response" /\ ResponseOk(o.status) /\ o.read = "ok"

\* ------------------------------------------------------------------------
\* WisprAuth.signInWithWisprApi: pure parts
\* ------------------------------------------------------------------------
\* A part of an access token, between two dots: text says what atob and JSON.parse
\* make of it ("": the part is empty; "notBase64": atob throws; "notJson": JSON.parse
\* throws; "null", "{}": the JSON text null, an object without claims; "claims": an
\* object with the claims sub and exp); exp = 0 stands for undefined
JwtPart(text, sub, exp) == [text |-> text, sub |-> sub, exp |-> exp]

OpaquePart == JwtPart("opaque", "undefined", 0)

\* the access tokens the vendor sends, the well-formed one expiring at exp
AccessTokenTexts(exp) ==
    {<<OpaquePart, JwtPart(t, "undefined", 0), OpaquePart>> :
        t \in {"", "notBase64", "notJson", "null", "{}"}}
    \cup {<<OpaquePart, JwtPart("claims", "uuid", exp), OpaquePart>>,
          <<OpaquePart, JwtPart("claims", "uuid", exp)>>}

NoAccessTokenText == <<>>

\* what JSON.parse returns for the payload of a token
JwtPayload(kind, sub, exp) == [kind |-> kind, sub |-> sub, exp |-> exp]

NoJwtPayload == JwtPayload("undefined", "undefined", 0)

\* decodeJwtPayload(token): the catch turns whatever the try block throws into
\* WisprAuthError; what JSON.parse returns is returned as it is
decodeJwtPayload(token) ==
    LET failed(cause) ==
            [error |-> WisprAuthError("Failed to decode access token", cause),
             value |-> NoJwtPayload] IN
    IF Len(token) # 3 THEN failed("Error")
    ELSE IF token[2].text = "" THEN failed("Error")
    ELSE IF token[2].text = "notBase64" THEN failed("InvalidCharacterError")
    ELSE IF token[2].text = "notJson" THEN failed("SyntaxError")
    ELSE [error |-> NoError,
          value |-> JwtPayload(IF token[2].text = "null" THEN "null" ELSE "object",
                               token[2].sub, token[2].exp)]

\* the error field of the vendor's response: null, or a string
VendorErrors == {"null", "", "Account locked"}

\* a body that conforms to WisprSignInResponseSchema: access_token and refresh_token
\* are the k-th the vendor issues, text is access_token as text
WisprSignInResponse(k, text, error) ==
    [access_token |-> k, refresh_token |-> k, text |-> text, error |-> error]

NoWisprSignInResponse == WisprSignInResponse(0, NoAccessTokenText, "null")

\* the session signInWithWisprApi builds
VendorSession(result, tokenPayload) ==
    [accessToken |-> result.access_token,
     refreshToken |-> result.refresh_token,
     userUuid |-> tokenPayload.sub,
     expiresAt |-> tokenPayload.exp]

\* signInWithWisprApi from the parsed body on: what it throws, or the session it stores
\* (`if (result.error)` is false for null and for the empty string; reading a
\* property of null throws a TypeError)
VendorSignIn(result) ==
    IF result.error \notin {"null", ""}
    THEN [error |-> WisprAuthError(result.error, "undefined"), session |-> <<>>]
    ELSE LET decoded == decodeJwtPayload(result.text) IN
         IF decoded.error # NoError
         THEN [error |-> decoded.error, session |-> <<>>]
         ELSE IF decoded.value.kind = "null"
         THEN [error |-> NativeError("TypeError"), session |-> <<>>]
         ELSE [error |-> NoError, session |-> <<VendorSession(result, decoded.value)>>]

\* the error signInWithWisprApi throws for outcome o of its fetch (o is not a readable 2xx)
VendorSignInError(o) ==
    IF o.type = "netfail" THEN NativeError("TypeError")
    ELSE IF ~ResponseOk(o.status) THEN
        IF o.status = 401 \/ o.status = 400
        THEN WisprAuthError("Invalid email or password", ErrorBody(o))
        ELSE WisprAuthError("Authentication failed", ErrorBody(o))
    ELSE NativeError("ZodError")

\* ------------------------------------------------------------------------
\* WisprClient.request: pure parts
\* ------------------------------------------------------------------------
\* the try block: what it throws (error) or returns (data) for outcome o of fetch
RequestTry(o, schema) ==
    IF o.type = "netfail" THEN [error |-> NativeError("TypeError"), data |-> NoData]
    ELSE IF o.type = "abort" THEN [error |-> NativeError("TimeoutError"), data |-> NoData]
    ELSE IF ~ResponseOk(o.status) THEN
        IF o.status = 401
        THEN [error |-> WisprAuthError("Authentication failed. Token may be expired.", "undefined"),
              data |-> NoData]
        ELSE [error |-> WisprApiError("API request failed", o.status, ErrorBody(o)), data |-> NoData]
    ELSE IF o.read = "abort" THEN [error |-> NativeError("TimeoutError"), data |-> NoData]
    ELSE IF o.read = "error" THEN [error |-> NativeError("SyntaxError"), data |-> NoData]
    ELSE LET data == ResponseJson(o.body)
             parseResult == SafeParse(schema, data) IN
         IF ~parseResult.success
         THEN [error |-> NoError, data |-> data]
         ELSE [error |-> NoError, data |-> parseResult.data]

\* faulty variant: the catch block without its instanceof test, every error is wrapped
RequestCatch_wrapsAll(e) ==
    IF e.class = "AbortError" \/ e.class = "TimeoutError" THEN WisprTimeoutError
    ELSE WisprApiError(e.message, 0, e.class)

\* the catch block: the error that leaves request() when the try block threw e
RequestCatch(e) ==
    IF e.class = "WisprApiError" \/ e.class = "WisprAuthError" THEN e
    ELSE IF e.class = "AbortError" \/ e.class = "TimeoutError" THEN WisprTimeoutError
    ELSE WisprApiError(e.message, 0, e.class)

request(o, schema) ==
    LET r == RequestTry(o, schema) IN
    IF r.error.class = "none" THEN r
    ELSE [error |-> RequestCatch(r.error), data |-> NoData]

\* faulty variant: transcribe treats the statuses "empty" and "error" as failures
AfterRequest_rejectsEmpty(kind, r) ==
    IF r.error.class # "none" THEN r
    ELSE IF kind = "transcribe" /\ r.data.status \in {"empty", "error"}
    THEN [error |-> WisprApiError("Transcription failed", 0, r.data.status), data |-> NoData]
    ELSE r

\* warmup() / transcribe() after request() returned data: transcribe reads
\* response.status, response.pipeline_text and response.total_time for its log entry
\* (reading a property of null throws), warmup passes the response on
AfterRequest(kind, r) ==
    IF r.error.class # "none" THEN r
    ELSE IF kind = "transcribe" /\ r.data.kind = "null"
    THEN [error |-> NativeError("TypeError"), data |-> NoData]
    ELSE r

\* ------------------------------------------------------------------------
\* WisprClient.transcribe: its argument and the payload it builds
\* ------------------------------------------------------------------------
\* the fields of TranscriptionContext
ArrayFields ==
    {"ax_context", "variable_names", "file_names", "ocr_context", "dictionary_context"}

NullableFields ==
    {"user_identifier", "user_first_name", "user_last_name", "textbox_contents",
     "content_text", "screenshot", "content_html", "conversation"}

ContextFields == {"app", "dictionary_replacements"} \cup ArrayFields \cup NullableFields

\* the right-hand sides of ?? in buildContext
ContextDefault(f) ==
    CASE f = "app" -> "{name:null,bundle_id:null,type:other,url:null}"
      [] f \in ArrayFields -> "[]"
      [] f = "dictionary_replacements" -> "{}"
      [] OTHER -> "null"

\* a value a caller supplies for field f, other than null
CallerValue(f) ==
    CASE f = "app" -> "{name:Mail,bundle_id:com.mail,type:email,url:null}"
      [] f \in ArrayFields -> "[x]"
      [] f = "dictionary_replacements" -> "{k:v}"
      [] OTHER -> "text"

\* the fields whose values are objects with optional inner fields (AppContextSchema,
\* TextboxContentsSchema)
NestedFields == {"app", "textbox_contents"}

\* an object for field f that carries one of its inner fields only
PartialValue(f) ==
    CASE f = "app" -> "{name:Mail}"
      [] OTHER -> "{before_text:abc}"

\* the inner fields an object value carries
InnerFields(v) ==
    CASE v = "{name:Mail}" -> {"name"}
      [] v = "{before_text:abc}" -> {"before_text"}
      [] v \in {"{name:null,bundle_id:null,type:other,url:null}",
                "{name:Mail,bundle_id:null,type:other,url:null}",
                "{name:Mail,bundle_id:com.mail,type:email,url:null}"} ->
            {"name", "bundle_id", "type", "url"}
      [] OTHER -> {}

\* the context argument: not given, or an object in which each field is absent
\* ("undefined"), null or a value
TranscriptionContext(given, fields) == [given |-> given, fields |-> fields]

NoContext == TranscriptionContext(FALSE, [f \in ContextFields |-> "undefined"])

\* context?.f
ContextField(context, f) == IF context.given THEN context.fields[f] ELSE "undefined"

\* faulty variant: the context is spread over the defaults, a null of the caller
\* replaces the default
buildContext_spread(context) ==
    [f \in ContextFields |->
        IF ContextField(context, f) = "undefined"
        THEN ContextDefault(f)
        ELSE ContextField(context, f)]

\* faulty variant: the value of the caller is merged into the default, inner field by
\* inner field
buildContext_deepMerge(context) ==
    [f \in ContextFields |->
        IF ContextField(context, f) \in {"undefined", "null"}
        THEN ContextDefault(f)
        ELSE IF f = "app" /\ ContextField(context, f) = "{name:Mail}"
        THEN "{name:Mail,bundle_id:null,type:other,url:null}"
        ELSE ContextField(context, f)]

\* buildContext(context): each field is context?.f ?? default
buildContext(context) ==
    [f \in ContextFields |->
        IF ContextField(context, f) \in {"undefined", "null"}
        THEN ContextDefault(f)
        ELSE ContextField(context, f)]

\* the contexts callers pass: none, the empty object, one field set to a value or
\* to null, every field set to a value, every field null, one nested field set to
\* an object that lacks inner fields
Contexts ==
    {NoContext}
    \cup {TranscriptionContext(TRUE, [f \in ContextFields |-> v]) : v \in {"undefined", "null"}}
    \cup {TranscriptionContext(TRUE, [f \in ContextFields |-> CallerValue(f)])}
    \cup {TranscriptionContext(TRUE, [f \in ContextFields |->
                                        IF f # g THEN "undefined"
                                        ELSE IF isNull THEN "null" ELSE CallerValue(f)]) :
             g \in ContextFields, isNull \in BOOLEAN}
    \cup {TranscriptionContext(TRUE, [f \in ContextFields |->
                                        IF f # g THEN "undefined" ELSE PartialValue(f)]) :
             g \in NestedFields}

\* an identifier: none, one the caller chose, or the n-th value of crypto.randomUUID()
Undefined == <<>>

CallerUuid(n) == <<"caller", n>>

\* faulty variant: one fixed identifier
generateUuid_fixed(n) == <<"minted", 0>>

\* generateUuid(): values of crypto.randomUUID() do not repeat
generateUuid(n) == <<"minted", n>>

\* the argument of transcribe()
TranscriptionRequest(audioData, session_id, transcript_entity_uuid, context) ==
    [audioData |-> audioData, session_id |-> session_id,
     transcript_entity_uuid |-> transcript_entity_uuid, context |-> context]

\* transcribe() called with no argument, and the argument of warmup()
NoRequest == TranscriptionRequest("undefined", Undefined, Undefined, NoContext)

\* a request that carries audio and both identifiers
SuppliedRequest == TranscriptionRequest("UklGRg", CallerUuid(1), CallerUuid(2), NoContext)

\* the requests callers pass to transcribe while another call is in flight ...
ConcurrentRequests ==
    {TranscriptionRequest("UklGRg", s, t, NoContext) :
        s \in {Undefined, CallerUuid(1)}, t \in {Undefined, CallerUuid(2)}}

\* ... and while none is
TranscriptionRequests ==
    ConcurrentRequests
    \cup {TranscriptionRequest(a, Undefined, Undefined, NoContext) : a \in {"undefined", ""}}
    \cup {TranscriptionRequest("UklGRg", CallerUuid(1), CallerUuid(2), c) : c \in Contexts}

\* the identifiers of request that are taken from generateUuid()
Minting(kind, req) ==
    IF kind # "transcribe" THEN 0
    ELSE (IF req.session_id = Undefined THEN 1 ELSE 0)
         + (IF req.transcript_entity_uuid = Undefined THEN 1 ELSE 0)

\* the payload of transcribe: n identifiers have been sent before. generateUuid()
\* is called twice on every call; a value that is not sent is never seen again and
\* is not counted
Payload(req, token, n) ==
    LET sessionId == generateUuid(n + 1)
        transcriptEntityUuid ==
            generateUuid(n + 1 + (IF req.session_id = Undefined THEN 1 ELSE 0)) IN
    [access_token |-> token,
     session_id |-> IF req.session_id = Undefined THEN sessionId ELSE req.session_id,
     transcript_entity_uuid |->
         IF req.transcript_entity_uuid = Undefined THEN transcriptEntityUuid
         ELSE req.transcript_entity_uuid,
     audio |-> IF req.audioData = "undefined" THEN "" ELSE req.audioData,
     context |-> buildContext(req.context)]

\* the identifiers of payload that were taken from generateUuid()
Minted(kind, req, payload) ==
    IF kind # "transcribe" THEN <<>>
    ELSE (IF req.session_id = Undefined THEN <<payload.session_id>> ELSE <<>>)
         \o (IF req.transcript_entity_uuid = Undefined
             THEN <<payload.transcript_entity_uuid>> ELSE <<>>)

\* no payload: warmup is a GET
NoPayload ==
    [access_token |-> 0, session_id |-> Undefined, transcript_entity_uuid |-> Undefined,
     audio |-> "undefined", context |-> [f \in ContextFields |-> "undefined"]]

\* ------------------------------------------------------------------------
\* WisprClient.create: its argument
\* ------------------------------------------------------------------------
\* the required fields of WisprFlowConfig, in the order create tests them
RequiredFields ==
    <<"email", "password", "supabaseUrl", "supabaseAnonKey", "basetenUrl", "basetenApiKey">>

\* a value of a field: "missing" (undefined or ''), "malformed" (a string of the
\* wrong format) or "valid"
WisprFlowConfig(values) == [i \in 1..Len(RequiredFields) |-> values[i]]

NoConfig == WisprFlowConfig([i \in 1..Len(RequiredFields) |-> "valid"])

\* config.field
ConfigField(config, f) ==
    config[CHOOSE i \in 1..Len(RequiredFields) : RequiredFields[i] = f]

\* the configurations callers pass: complete, or with one field missing or malformed
Configs ==
    {NoConfig}
    \cup {WisprFlowConfig([i \in 1..Len(RequiredFields) |-> IF i = j THEN v ELSE "valid"]) :
             j \in 1..Len(RequiredFields), v \in {"missing", "malformed"}}

\* the tests of create: the first field that is missing, 0 if none is
FirstMissing(config) ==
    IF \E i \in 1..Len(RequiredFields) : config[i] = "missing"
    THEN CHOOSE i \in 1..Len(RequiredFields) :
            /\ config[i] = "missing"
            /\ \A j \in 1..(i - 1) : config[j] # "missing"
    ELSE 0

\* WisprConfigSchema.safeParse in the constructor: of the fields of create's
\* argument only basetenUrl has a format there (z.string().url())
ConfigSchemaOk(config) == ConfigField(config, "basetenUrl") # "malformed"

\* ------------------------------------------------------------------------
\* new WisprClient(options): its argument and its tests
\* ------------------------------------------------------------------------
\* options: auth is given or not; accessToken is a token the caller holds (0: not
\* given, or empty); userUuid, basetenUrl and basetenApiKey are "undefined", of the
\* right format, or (userUuid, basetenUrl) "malformed"
WisprClientOptions(auth, accessToken, userUuid, basetenUrl, basetenApiKey) ==
    [auth |-> auth, accessToken |-> accessToken, userUuid |-> userUuid,
     basetenUrl |-> basetenUrl, basetenApiKey |-> basetenApiKey]

NoOptions == WisprClientOptions(FALSE, 0, "undefined", "undefined", "undefined")

ClientOptions ==
    {WisprClientOptions(a, t, u, b, k) :
        a \in BOOLEAN, t \in 0..MaxTokens, u \in {"undefined", "uuid", "malformed"},
        b \in {"undefined", "url", "malformed"}, k \in {"undefined", "key"}}

\* options with a well-formed userUuid, one of two inference URLs and one of two API
\* keys
AcceptedOptions ==
    {WisprClientOptions(a, t, "uuid", b, k) :
        a \in BOOLEAN, t \in 0..MaxTokens, b \in {"url", "otherUrl"},
        k \in {"key", "otherKey"}}

\* the options after the constructor has taken accessToken and userUuid from the
\* session of the auth (session.userUuid is a UUID: SupabaseUserSchema.id)
WithSession(options, session) ==
    IF options.auth /\ session # <<>>
    THEN [options EXCEPT !.accessToken = session[1].accessToken, !.userUuid = "uuid"]
    ELSE options

\* the tests that follow the one of the session
OptionsError(o) ==
    IF o.accessToken = 0 \/ o.userUuid = "undefined"
    THEN WisprValidationError(
             "Either provide accessToken and userUuid, or provide an authenticated WisprAuth instance",
             "Missing required configuration")
    ELSE IF o.basetenUrl = "undefined"
    THEN WisprValidationError("basetenUrl is required", "Missing basetenUrl")
    ELSE IF o.basetenApiKey = "undefined"
    THEN WisprValidationError("basetenApiKey is required", "Missing basetenApiKey")
    ELSE IF o.userUuid = "malformed" \/ o.basetenUrl = "malformed"
    THEN WisprValidationError("Invalid configuration", "ZodIssues")
    ELSE NoError

\* faulty variant: an auth without a session is accepted
ConstructorError_noSessionTest(options, session) ==
    OptionsError(WithSession(options, session))

\* what the constructor throws for options, the auth holding session (NoError: nothing)
ConstructorError(options, session) ==
    IF options.auth /\ session = <<>>
    THEN WisprValidationError("WisprAuth has no active session. Please sign in first.",
                              "No session found")
    ELSE OptionsError(WithSession(options, session))

\* faulty variant: the whole configuration is returned
getConfig_whole(client) ==
    [accessToken |-> client.accessToken, basetenApiKey |-> client.basetenApiKey,
     userUuid |-> client.userUuid, apiBaseUrl |-> "undefined",
     basetenUrl |-> client.basetenUrl, clientVersion |-> "undefined",
     timeout |-> DefaultTimeoutMs, debug |-> FALSE]

\* getConfig(): six fields of this.config. The options of the model carry no
\* apiBaseUrl, clientVersion, timeout or debug: the parsed configuration holds the
\* defaults of WisprConfigSchema for them
getConfig(client) ==
    [userUuid |-> client.userUuid, apiBaseUrl |-> "undefined",
     basetenUrl |-> client.basetenUrl, clientVersion |-> "undefined",
     timeout |-> DefaultTimeoutMs, debug |-> FALSE]

\* ------------------------------------------------------------------------
\* toBase64 / fromBase64ToBytes
\* ------------------------------------------------------------------------
\* a byte sequence (Uint8Array) is a sequence of numbers in 0..255, a string a
\* sequence of UTF-16 code units, a base64 text a sequence of its characters
SampleBytes == {0, 65, 127, 128, 255}

ByteSequences == UNION {[1..n -> SampleBytes] : n \in 0..MaxBytes}

Base64Alphabet ==
    <<"A", "B", "C", "D", "E", "F", "G", "H", "I", "J", "K", "L", "M", "N", "O", "P",
      "Q", "R", "S", "T", "U", "V", "W", "X", "Y", "Z", "a", "b", "c", "d", "e", "f",
      "g", "h", "i", "j", "k", "l", "m", "n", "o", "p", "q", "r", "s", "t", "u", "v",
      "w", "x", "y", "z", "0", "1", "2", "3", "4", "5", "6", "7", "8", "9", "+", "/">>

\* the character of a 6-bit value, and the 6-bit value of a character
Base64Char(v) == Base64Alphabet[v + 1]

Base64Value(ch) == (CHOOSE i \in 1..Len(Base64Alphabet) : Base64Alphabet[i] = ch) - 1

\* String.fromCharCode(n): the code unit n modulo 2^16
StringFromCharCode(n) == n % 65536

\* storing n in an element of a Uint8Array: n modulo 2^8
ToUint8(n) == n % 256

\* faulty variant: the bytes are written as UTF-8 text, a byte above 127 takes two units
RECURSIVE BinaryString_utf8(_)
BinaryString_utf8(bytes) ==
    IF bytes = <<>> THEN <<>>
    ELSE (IF bytes[1] < 128
          THEN <<bytes[1]>>
          ELSE <<192 + (bytes[1] \div 64), 128 + (bytes[1] % 64)>>)
         \o BinaryString_utf8(Tail(bytes))

\* the loop of toBase64: binary += String.fromCharCode(bytes[i])
BinaryString(bytes) == [i \in 1..Len(bytes) |-> StringFromCharCode(bytes[i])]

\* btoa(binary) for a string of code units below 256: three units make four
\* characters, a last group of one or two units is padded with "="
RECURSIVE btoa(_)
btoa(binary) ==
    IF Len(binary) = 0 THEN <<>>
    ELSE IF Len(binary) = 1 THEN
        <<Base64Char(binary[1] \div 4), Base64Char((binary[1] % 4) * 16), "=", "=">>
    ELSE IF Len(binary) = 2 THEN
        <<Base64Char(binary[1] \div 4),
          Base64Char((binary[1] % 4) * 16 + (binary[2] \div 16)),
          Base64Char((binary[2] % 16) * 4), "=">>
    ELSE
        <<Base64Char(binary[1] \div 4),
          Base64Char((binary[1] % 4) * 16 + (binary[2] \div 16)),
          Base64Char((binary[2] % 16) * 4 + (binary[3] \div 64)),
          Base64Char(binary[3] % 64)>>
        \o btoa(SubSeq(binary, 4, Len(binary)))

\* atob(base64) for a padded text: four characters make three code units, "=" in
\* the last group stands for a unit that is not there
RECURSIVE atob(_)
atob(base64) ==
    IF Len(base64) < 4 THEN <<>>
    ELSE LET v1 == Base64Value(base64[1])
             v2 == Base64Value(base64[2]) IN
         IF base64[3] = "=" THEN <<(v1 * 4) + (v2 \div 16)>>
         ELSE IF base64[4] = "=" THEN
             <<(v1 * 4) + (v2 \div 16), (v2 % 16) * 16 + (Base64Value(base64[3]) \div 4)>>
         ELSE
             <<(v1 * 4) + (v2 \div 16),
               (v2 % 16) * 16 + (Base64Value(base64[3]) \div 4),
               (Base64Value(base64[3]) % 4) * 64 + Base64Value(base64[4])>>
             \o atob(SubSeq(base64, 5, Len(base64)))

\* toBase64(data) for a Uint8Array (an ArrayBuffer is viewed as one)
toBase64(data) == btoa(BinaryString(data))

\* fromBase64ToBytes(base64): bytes[i] = binary.charCodeAt(i)
fromBase64ToBytes(base64) ==
    LET binary == atob(base64) IN
    [i \in 1..Len(binary) |-> ToUint8(binary[i])]

\* no application of the codec in progress
NoCodec == [pc |-> "idle", data |-> <<>>, base64 |-> <<>>, bytes |-> <<>>]

\* ------------------------------------------------------------------------
\* retry: pure parts
\* ------------------------------------------------------------------------
\* the options of retry: each is absent (<<>>) or a number (<<n>>)
RetryOptions(maxRetries, baseDelayMs, maxDelayMs) ==
    [maxRetries |-> maxRetries, baseDelayMs |-> baseDelayMs, maxDelayMs |-> maxDelayMs]

NoRetryOptions == RetryOptions(<<>>, <<>>, <<>>)

\* the option records callers pass
RetryOptionRecords ==
    {RetryOptions(m, b, d) :
        m \in {<<>>} \cup {<<n>> : n \in (0 - 1)..MaxRetryOption},
        b \in {<<>>, <<0 - 1>>, <<0>>, <<1>>, <<2>>},
        d \in {<<>>, <<0>>, <<3>>}}

\* const { maxRetries = 3, baseDelayMs = 1000, maxDelayMs = 10000 } = options
Destructured(option, default) == IF option = <<>> THEN default ELSE option[1]

MaxRetriesOf(options) == Destructured(options.maxRetries, DefaultMaxRetries)

BaseDelayMsOf(options) == Destructured(options.baseDelayMs, DefaultBaseDelayMs)

MaxDelayMsOf(options) == Destructured(options.maxDelayMs, DefaultMaxDelayMs)

MathMin(a, b) == IF a <= b THEN a ELSE b

\* faulty variant: the delay is not capped
Delay_uncapped(baseDelayMs, maxDelayMs, attempt) == baseDelayMs * (2 ^ attempt)

\* Math.min(baseDelayMs * 2 ** attempt, maxDelayMs)
Delay(baseDelayMs, maxDelayMs, attempt) == MathMin(baseDelayMs * (2 ^ attempt), maxDelayMs)

\* a run of retry: the invocations of fn are numbered from 1; the value and the error
\* of the n-th invocation are both written n, lastError = 0 stands for undefined
NoRetry ==
    [pc |-> "idle", options |-> NoRetryOptions,
     attempt |-> 0,        \* the loop variable
     calls |-> 0,          \* invocations of fn so far
     settled |-> 0,        \* invocations of fn that have returned or thrown
     waits |-> <<>>,       \* the arguments of sleep so far
     lastError |-> 0,      \* lastError
     outcome |-> "none",   \* "returned" or "threw" when retry has ended
     value |-> 0,          \* the value it returned ...
     thrown |-> 0]         \* ... or the error it threw

\* ------------------------------------------------------------------------
\* State
\* ------------------------------------------------------------------------
VARIABLES
    now,             \* Math.floor(Date.now() / 1000)
    ticks,           \* clock advances so far
    issued,          \* sessions the identity provider has issued so far
    currentSession,  \* WisprAuth.currentSession: <<>> or <<AuthSession>>
    objects,         \* the session objects built so far: how often the fields of each were
                     \* written, and which one the auth holds (ref, 0 for null)
    clients,         \* WisprClient instances built with the WisprAuth
    op,              \* the operations in flight, one per process
    reply,           \* the outcome of the last fetch of each operation
    minted,          \* the values of crypto.randomUUID() sent so far, in order
    provider,        \* the identity provider: how it treats a refresh token that was
                     \* used before, and the refresh tokens it has invalidated
    codec,           \* an application of toBase64 and fromBase64ToBytes
    retrying         \* a run of retry

vars == <<now, ticks, issued, currentSession, objects, clients, op, reply, minted, provider,
          codec, retrying>>

NoClient ==
    [built |-> FALSE, auth |-> FALSE, accessToken |-> 0, userUuid |-> "undefined",
     basetenUrl |-> "undefined", basetenApiKey |-> "undefined", tokenRefreshBuffer |-> 0]

NoReply == [from |-> "none", type |-> "none", status |-> 0, body |-> "none", read |-> "none"]

\* outcome o of a fetch, as the answer of the identity provider ("idp") or of the
\* vendor / inference service ("svc")
ReplyOf(from, o) ==
    [from |-> from, type |-> o.type, status |-> o.status, body |-> o.body, read |-> o.read]

\* the session stored at time t is within b seconds of its expiry, or past it
Lapsed(session, t, b) == session # <<>> /\ t >= session[1].expiresAt - b

\* an operation that has not been called
Idle ==
    [kind |-> "none", pc |-> "idle", client |-> 0,
     hadSession |-> FALSE,     \* a session was stored when the operation was called
     lapsed |-> FALSE,         \* that session was within the buffer of its expiry then
     refreshArg |-> 0,         \* the argument of refreshSession (0: none)
     sentRefreshToken |-> 0,   \* refresh_token in the body of its refresh request
     refreshReqs |-> 0,        \* requests it sent to .../token?grant_type=refresh_token
     signInReqs |-> 0,         \* requests it sent to .../token?grant_type=password
     credentials |-> NoCredentials,  \* the credentials it was called with
     signInBody |-> NoBody,    \* the body of its sign-in request
     logoutReqs |-> 0,         \* requests it sent to .../logout
     svcReqs |-> 0,            \* requests it sent to the vendor / inference service
     statusReqs |-> 0,         \* requests it sent to .../user_status
     attached |-> 0,           \* access token attached to the service request
     request |-> NoRequest,    \* the argument of transcribe
     config |-> NoConfig,      \* the argument of WisprClient.create
     options |-> NoOptions,    \* the argument of new WisprClient
     newToken |-> 0,           \* the argument of updateAccessToken
     vendorReqs |-> 0,         \* requests it sent to .../email/signin
     vendorBody |-> NoWisprSignInResponse,  \* the body of the 2xx response to it
     payload |-> NoPayload,    \* the body of the transcription request
     grantedAt |-> -1,         \* time at which the provider granted the session it returned
     error |-> NoError,        \* the error it threw
     retSession |-> <<>>,      \* the session it returned ...
     retRef |-> 0,             \* ... and which object that is
     retToken |-> 0,           \* the token it returned
     retData |-> NoData]       \* the response data it returned

\* a call of kind k (by client c) at the current time
Called(k, c, b) ==
    [Idle EXCEPT !.kind = k, !.client = c,
                 !.hadSession = currentSession # <<>>,
                 !.lapsed = Lapsed(currentSession, now, b)]

\* the state after construction, with an identity provider of the given policy
InitWith(policy) ==
    /\ provider = Provider(policy, {})
    /\ codec = NoCodec
    /\ retrying = NoRetry
    /\ now = 0
    /\ ticks = 0
    /\ issued = 0
    /\ objects = [ref |-> 0, writes |-> <<>>]
    /\ currentSession = <<>>
    /\ clients = [c \in Clients |-> NoClient]
    /\ op = [p \in Procs |-> Idle]
    /\ reply = [p \in Procs |-> NoReply]
    /\ minted = <<>>

Init == InitWith("any")

\* The continuation of the caller that awaits an operation runs as soon as the
\* operation settles, before the event loop handles another network event or timer:
\* nothing else happens while a finished operation has not been returned.
Quiet == \A q \in Procs : op[q].pc # "done"

\* a caller starts its operation on the first free process
Free(p) == op[p].pc = "idle" /\ \A q \in Procs : q < p => op[q].pc # "idle"

\* ------------------------------------------------------------------------
\* Assignments to this.currentSession
\* ------------------------------------------------------------------------
\* faulty variant: the fields of the object the auth holds are overwritten
Assign_inPlace(session) ==
    /\ currentSession' = <<session>>
    /\ IF objects.ref = 0
       THEN objects' = [ref |-> Len(objects.writes) + 1, writes |-> Append(objects.writes, 1)]
       ELSE objects' = [objects EXCEPT !.writes[objects.ref] = @ + 1]

\* this.currentSession = {...}: a new object is built, its fields are written once,
\* and the auth holds it
Assign(session) ==
    /\ currentSession' = <<session>>
    /\ objects' = [ref |-> Len(objects.writes) + 1, writes |-> Append(objects.writes, 1)]

\* this.currentSession = null
Clear ==
    /\ currentSession' = <<>>
    /\ objects' = [objects EXCEPT !.ref = 0]

\* ------------------------------------------------------------------------
\* Environment
\* ------------------------------------------------------------------------
TickUpTo(d, max) ==
    /\ Quiet
    /\ ticks < max
    /\ now' = now + d
    /\ ticks' = ticks + 1
    /\ UNCHANGED <<provider, codec, retrying, minted, issued, currentSession, objects, clients, op, reply>>

Tick(d) == TickUpTo(d, MaxTicks)

\* the caller takes the result of a finished operation
Return(p) ==
    /\ op[p].pc = "done"
    /\ op' = [op EXCEPT ![p] = Idle]
    /\ reply' = [reply EXCEPT ![p] = NoReply]
    /\ UNCHANGED <<provider, codec, retrying, now, ticks, minted, issued, currentSession, objects, clients>>

\* ------------------------------------------------------------------------
\* WisprAuth operations
\* ------------------------------------------------------------------------
NoRefreshTokenError ==
    WisprAuthError("No refresh token available. Please sign in first.", "undefined")

NotSignedInError ==
    WisprAuthError("Not signed in. Please sign in first.", "undefined")

\* signIn / signInWithSupabase, up to its fetch
SignInCall(p) ==
    /\ Quiet
    /\ Free(p)
    /\ op' = [op EXCEPT ![p] = [Called("signIn", 0, 0) EXCEPT
                                    !.pc = "signIn_wait", !.signInReqs = 1,
                                    !.credentials = Credentials,
                                    !.signInBody = SignInBody(Credentials)]]
    /\ UNCHANGED <<provider, codec, retrying, now, ticks, minted, issued, currentSession, objects, clients, reply>>

\* faulty variant: the password is kept in the session, where the refresh token belongs
SignInStore_keepsPassword(p, data) ==
    /\ Assign([AuthSession(data) EXCEPT !.refreshToken = op[p].credentials.password])
    /\ op' = [op EXCEPT ![p].pc = "done", ![p].retSession = currentSession',
                        ![p].retRef = objects'.ref,
                        ![p].grantedAt = now]

\* signInWithSupabase from a readable 2xx response on: the session is stored and returned
SignInStore(p, data) ==
    /\ Assign(AuthSession(data))
    /\ op' = [op EXCEPT ![p].pc = "done", ![p].retSession = currentSession',
                        ![p].retRef = objects'.ref,
                        ![p].grantedAt = now]

\* faulty variant: a failed sign-in drops the session that was stored
SignInThrow_clears(p, o) ==
    /\ op' = [op EXCEPT ![p].pc = "done", ![p].error = SignInError(o)]
    /\ Clear

\* signInWithSupabase on a non-2xx response, an unreadable body or a transport failure
SignInThrow(p, o) ==
    /\ op' = [op EXCEPT ![p].pc = "done", ![p].error = SignInError(o)]
    /\ UNCHANGED <<currentSession, objects>>

\* the outcome of the fetch of a sign-in, while the provider has issued fewer than
\* max sessions
SignInResponseUpTo(p, o, lifetime, max) ==
    /\ Quiet
    /\ op[p].pc = "signIn_wait"
    /\ reply' = [reply EXCEPT ![p] = ReplyOf("idp", o)]
    /\ IF IdpSuccess(o)
       THEN /\ issued < max
            /\ issued' = issued + 1
            /\ SignInStore(p, SupabaseSession(issued + 1, now, lifetime))
       ELSE /\ SignInThrow(p, o)
            /\ UNCHANGED issued
    /\ UNCHANGED <<provider, codec, retrying, now, ticks, minted, clients>>

SignInResponse(p, o, lifetime) == SignInResponseUpTo(p, o, lifetime, MaxTokens)

\* faulty variant: the test of the token is missing, the request is sent without one
RefreshSessionCall_sendsWithoutToken(p) ==
    /\ Quiet
    /\ Free(p)
    /\ LET rec == Called("refreshSession", 0, 0) IN
       op' = [op EXCEPT ![p] = [rec EXCEPT !.pc = "refresh_wait", !.refreshReqs = 1,
                                           !.sentRefreshToken =
                                               IF currentSession = <<>> THEN 0
                                               ELSE currentSession[1].refreshToken]]
    /\ UNCHANGED <<provider, codec, retrying, now, ticks, minted, issued, currentSession, objects, clients,
                   reply>>

\* refreshSession() with no argument, called directly, up to its fetch:
\* without a stored refresh token it throws before any request
RefreshSessionCall(p) ==
    /\ Quiet
    /\ Free(p)
    /\ LET rec == Called("refreshSession", 0, 0) IN
       IF currentSession = <<>>
       THEN op' = [op EXCEPT ![p] = [rec EXCEPT !.pc = "done", !.error = NoRefreshTokenError]]
       ELSE op' = [op EXCEPT ![p] = [rec EXCEPT !.pc = "refresh_wait", !.refreshReqs = 1,
                                         !.sentRefreshToken = currentSession[1].refreshToken]]
    /\ UNCHANGED <<provider, codec, retrying, now, ticks, minted, issued, currentSession, objects, clients, reply>>

\* faulty variant: the argument is ignored when a session is stored
RefreshSessionWithCall_prefersStored(p, t) ==
    /\ Quiet
    /\ Free(p)
    /\ t \in 1..issued
    /\ LET rec == [Called("refreshSession", 0, 0) EXCEPT !.refreshArg = t]
           token == IF currentSession # <<>> THEN currentSession[1].refreshToken ELSE t IN
       op' = [op EXCEPT ![p] = [rec EXCEPT !.pc = "refresh_wait", !.refreshReqs = 1,
                                           !.sentRefreshToken = token]]
    /\ UNCHANGED <<provider, codec, retrying, now, ticks, minted, issued, currentSession, objects, clients,
                   reply>>

\* refreshSession(t) with a refresh token t the caller has kept, up to its fetch:
\* the argument is sent, whatever is stored
RefreshSessionWithCall(p, t) ==
    /\ Quiet
    /\ Free(p)
    /\ t \in 1..issued
    /\ LET rec == [Called("refreshSession", 0, 0) EXCEPT !.refreshArg = t] IN
       op' = [op EXCEPT ![p] = [rec EXCEPT !.pc = "refresh_wait", !.refreshReqs = 1,
                                           !.sentRefreshToken = t]]
    /\ UNCHANGED <<provider, codec, retrying, now, ticks, minted, issued, currentSession, objects, clients,
                   reply>>

\* faulty variant: the expiry test is missing, every call with a session refreshes
GetValidAccessTokenCall_alwaysRefresh(p) ==
    /\ Quiet
    /\ Free(p)
    /\ LET rec == Called("getValidAccessToken", 0, DefaultBufferSeconds) IN
       IF currentSession = <<>>
       THEN op' = [op EXCEPT ![p] = [rec EXCEPT !.pc = "done", !.error = NotSignedInError]]
       ELSE op' = [op EXCEPT ![p] = [rec EXCEPT !.pc = "refresh_wait", !.refreshReqs = 1,
                                         !.sentRefreshToken = currentSession[1].refreshToken]]
    /\ UNCHANGED <<provider, codec, retrying, now, ticks, minted, issued, currentSession, objects, clients, reply>>

\* faulty variant: a call that finds a refresh in flight sends none of its own
GetValidAccessTokenCall_singleFlight(p) ==
    /\ Quiet
    /\ Free(p)
    /\ LET rec == Called("getValidAccessToken", 0, DefaultBufferSeconds) IN
       IF currentSession = <<>>
       THEN op' = [op EXCEPT ![p] = [rec EXCEPT !.pc = "done", !.error = NotSignedInError]]
       ELSE IF /\ isSessionExpired(currentSession, now, DefaultBufferSeconds)
               /\ \A q \in Procs : op[q].pc # "refresh_wait"
       THEN op' = [op EXCEPT ![p] = [rec EXCEPT !.pc = "refresh_wait", !.refreshReqs = 1,
                                         !.sentRefreshToken = currentSession[1].refreshToken]]
       ELSE op' = [op EXCEPT ![p] = [rec EXCEPT !.pc = "done",
                                         !.retToken = currentSession[1].accessToken]]
    /\ UNCHANGED <<provider, codec, retrying, now, ticks, minted, issued, currentSession, objects, clients, reply>>

\* getValidAccessToken(), up to the fetch of the refresh it may start
GetValidAccessTokenCall(p) ==
    /\ Quiet
    /\ Free(p)
    /\ LET rec == Called("getValidAccessToken", 0, DefaultBufferSeconds) IN
       IF currentSession = <<>>
       THEN op' = [op EXCEPT ![p] = [rec EXCEPT !.pc = "done", !.error = NotSignedInError]]
       ELSE IF isSessionExpired(currentSession, now, DefaultBufferSeconds)
       THEN op' = [op EXCEPT ![p] = [rec EXCEPT !.pc = "refresh_wait", !.refreshReqs = 1,
                                         !.sentRefreshToken = currentSession[1].refreshToken]]
       ELSE op' = [op EXCEPT ![p] = [rec EXCEPT !.pc = "done",
                                         !.retToken = currentSession[1].accessToken]]
    /\ UNCHANGED <<provider, codec, retrying, now, ticks, minted, issued, currentSession, objects, clients, reply>>

\* signOut(), up to the fetch of the revocation; with no session there is nothing to
\* revoke and the (empty) store is cleared at once
SignOutCall(p) ==
    /\ Quiet
    /\ Free(p)
    /\ LET rec == Called("signOut", 0, 0) IN
       IF currentSession # <<>>
       THEN /\ op' = [op EXCEPT ![p] = [rec EXCEPT !.pc = "logout_wait", !.logoutReqs = 1]]
            /\ UNCHANGED <<currentSession, objects>>
       ELSE /\ op' = [op EXCEPT ![p] = [rec EXCEPT !.pc = "done"]]
            /\ Clear
    /\ UNCHANGED <<provider, codec, retrying, now, ticks, minted, issued, clients, reply>>

\* faulty variant: no try / catch around the revocation, a rejected fetch leaves signOut
SignOutFinish_rethrows(p, o) ==
    IF o.type = "netfail"
    THEN /\ op' = [op EXCEPT ![p].pc = "done", ![p].error = NativeError("TypeError")]
         /\ UNCHANGED <<currentSession, objects>>
    ELSE /\ op' = [op EXCEPT ![p].pc = "done"]
         /\ Clear

\* signOut() from the outcome of the revocation on: the response is not looked at,
\* a rejected fetch is caught, and the session is cleared
SignOutFinish(p, o) ==
    /\ op' = [op EXCEPT ![p].pc = "done"]
    /\ Clear

SignOutResponse(p, o) ==
    /\ Quiet
    /\ op[p].pc = "logout_wait"
    /\ reply' = [reply EXCEPT ![p] = ReplyOf("idp", o)]
    /\ SignOutFinish(p, o)
    /\ UNCHANGED <<provider, codec, retrying, now, ticks, minted, issued, clients>>

\* faulty variant: a failed refresh signs the user out
RefreshThrow_clears(p, o) ==
    /\ op' = [op EXCEPT ![p].pc = "done", ![p].error = RefreshError(o)]
    /\ Clear
    /\ UNCHANGED <<clients, minted>>

\* refreshSession() from the outcome of its fetch on, when it throws: the caller is
\* refreshSession itself or getValidAccessToken, which lets the error through
RefreshThrow(p, o) ==
    /\ op' = [op EXCEPT ![p].pc = "done", ![p].error = RefreshError(o)]
    /\ UNCHANGED <<currentSession, objects, clients, minted>>

\* refreshSession() from a readable 2xx response on, called by refreshSession() itself
\* (returns the session) or by getValidAccessToken (returns currentSession.accessToken)
RefreshStore(p, data) ==
    /\ Assign(AuthSession(data))
    /\ op' = [op EXCEPT ![p] =
                IF @.kind = "refreshSession"
                THEN [@ EXCEPT !.pc = "done", !.retSession = currentSession',
                               !.retRef = objects'.ref,
                               !.grantedAt = now]
                ELSE [@ EXCEPT !.pc = "done", !.retToken = AuthSession(data).accessToken,
                               !.grantedAt = now]]
    /\ UNCHANGED <<clients, minted>>

\* ------------------------------------------------------------------------
\* WisprClient
\* ------------------------------------------------------------------------
ClientKinds == {"warmup", "transcribe"}

\* new WisprClient({auth, tokenRefreshBuffer}): the token of the session is copied
\* into config.accessToken; without a session the constructor throws
NewClient(c) ==
    /\ Quiet
    /\ ~clients[c].built
    /\ currentSession # <<>>
    /\ clients' = [clients EXCEPT ![c] = [built |-> TRUE, auth |-> TRUE,
                                          accessToken |-> currentSession[1].accessToken,
                                          userUuid |-> "uuid", basetenUrl |-> "url",
                                          basetenApiKey |-> "key",
                                          tokenRefreshBuffer |-> ClientBuffer(c)]]
    /\ UNCHANGED <<provider, codec, retrying, now, ticks, minted, issued, currentSession, objects, op, reply>>

\* new WisprClient(options), with any options: it throws, or the client exists with the
\* token of the session (auth given) or the token of the options
ConstructCall(p, c, options) ==
    /\ Quiet
    /\ Free(p)
    /\ ~clients[c].built
    /\ options.accessToken <= issued
    /\ LET e == ConstructorError(options, currentSession)
           o == WithSession(options, currentSession) IN
       /\ op' = [op EXCEPT ![p] = [Called("new", c, 0) EXCEPT !.pc = "done",
                                                                !.options = options,
                                                                !.error = e]]
       /\ clients' = IF e = NoError
                     THEN [clients EXCEPT ![c] = [built |-> TRUE, auth |-> options.auth,
                                                  accessToken |-> o.accessToken,
                                                  userUuid |-> o.userUuid,
                                                  basetenUrl |-> o.basetenUrl,
                                                  basetenApiKey |-> o.basetenApiKey,
                                                  tokenRefreshBuffer |-> ClientBuffer(c)]]
                     ELSE clients
    /\ UNCHANGED <<provider, codec, retrying, now, ticks, minted, issued, currentSession, objects, reply>>

\* updateAccessToken(newToken): config.accessToken is overwritten
UpdateAccessTokenCall(p, c, newToken) ==
    /\ Quiet
    /\ Free(p)
    /\ clients[c].built
    /\ newToken \in 1..issued
    /\ op' = [op EXCEPT ![p] = [Called("updateAccessToken", c, 0) EXCEPT !.pc = "done",
                                                                     !.newToken = newToken]]
    /\ clients' = [clients EXCEPT ![c].accessToken = newToken]
    /\ UNCHANGED <<provider, codec, retrying, now, ticks, minted, issued, currentSession, objects, reply>>

EnsureValidTokenError(e) ==
    WisprAuthError("Failed to refresh access token. Please sign in again.", e.class)

\* request(): the fetch is issued with the token of config.accessToken, in the
\* Authorization header (warmup) or in the payload (transcribe)
Dispatch(rec, token) ==
    [rec EXCEPT !.pc = "service_wait", !.svcReqs = @ + 1, !.attached = token,
                !.payload = IF rec.kind = "transcribe"
                            THEN Payload(rec.request, token, Len(minted))
                            ELSE NoPayload]

\* warmup() / transcribe() from the end of ensureValidToken() to the fetch of request()
Send(p, rec, token) ==
    /\ Len(minted) + Minting(rec.kind, rec.request) <= MaxUuids
    /\ op' = [op EXCEPT ![p] = Dispatch(rec, token)]
    /\ minted' = minted \o Minted(rec.kind, rec.request, Dispatch(rec, token).payload)

\* faulty variant: the failure of the refresh is logged and the request is sent all the same
TokenStepFailed_sendsAnyway(p, rec, e) ==
    Send(p, rec, clients[rec.client].accessToken)

\* ensureValidToken(): the catch around refreshSession()
TokenStepFailed(p, rec, e) ==
    /\ op' = [op EXCEPT ![p] = [rec EXCEPT !.pc = "done", !.error = EnsureValidTokenError(e)]]
    /\ UNCHANGED minted

\* faulty variant: ensureValidToken() tests the expiry with the default buffer of
\* isSessionExpired, not with the tokenRefreshBuffer of the client
ServiceCallWith_defaultBuffer(p, c, k, req) ==
    /\ Quiet
    /\ Free(p)
    /\ clients[c].built
    /\ LET rec == [Called(k, c, DefaultBufferSeconds) EXCEPT !.request = req] IN
       IF clients[c].auth /\ isSessionExpired(currentSession, now, DefaultBufferSeconds)
       THEN IF currentSession = <<>>
            THEN TokenStepFailed(p, rec, NoRefreshTokenError)
            ELSE /\ op' = [op EXCEPT ![p] =
                              [rec EXCEPT !.pc = "refresh_wait", !.refreshReqs = 1,
                                          !.sentRefreshToken = currentSession[1].refreshToken]]
                 /\ UNCHANGED minted
       ELSE Send(p, rec, clients[c].accessToken)
    /\ UNCHANGED <<provider, codec, retrying, now, ticks, issued, currentSession, objects, clients, reply>>

\* faulty variant: ensureValidToken() does not test whether the client has an auth
ServiceCallWith_refreshWithoutAuth(p, c, k, req) ==
    /\ Quiet
    /\ Free(p)
    /\ clients[c].built
    /\ LET rec == [Called(k, c, clients[c].tokenRefreshBuffer) EXCEPT !.request = req] IN
       IF isSessionExpired(currentSession, now, clients[c].tokenRefreshBuffer)
       THEN IF currentSession = <<>>
            THEN TokenStepFailed(p, rec, NoRefreshTokenError)
            ELSE /\ op' = [op EXCEPT ![p] =
                              [rec EXCEPT !.pc = "refresh_wait", !.refreshReqs = 1,
                                          !.sentRefreshToken = currentSession[1].refreshToken]]
                 /\ UNCHANGED minted
       ELSE Send(p, rec, clients[c].accessToken)
    /\ UNCHANGED <<provider, codec, retrying, now, ticks, issued, currentSession, objects, clients, reply>>

\* warmup() / transcribe() up to the first fetch: that of the refresh when the client
\* has an auth and the session is expired for the client's buffer, that of the request
\* otherwise
ServiceCallWith(p, c, k, req) ==
    /\ Quiet
    /\ Free(p)
    /\ clients[c].built
    /\ LET rec == [Called(k, c, clients[c].tokenRefreshBuffer) EXCEPT !.request = req] IN
       IF clients[c].auth /\ isSessionExpired(currentSession, now, clients[c].tokenRefreshBuffer)
       THEN IF currentSession = <<>>
            THEN TokenStepFailed(p, rec, NoRefreshTokenError)
            ELSE /\ op' = [op EXCEPT ![p] =
                              [rec EXCEPT !.pc = "refresh_wait", !.refreshReqs = 1,
                                          !.sentRefreshToken = currentSession[1].refreshToken]]
                 /\ UNCHANGED minted
       ELSE Send(p, rec, clients[c].accessToken)
    /\ UNCHANGED <<provider, codec, retrying, now, ticks, issued, currentSession, objects, clients, reply>>

\* warmup(), and transcribe() with a request that carries its identifiers
ServiceCall(p, c, k) ==
    ServiceCallWith(p, c, k, IF k = "warmup" THEN NoRequest ELSE SuppliedRequest)

\* transcribe(request)
TranscribeCall(p, c, req) == ServiceCallWith(p, c, "transcribe", req)

\* ensureValidToken() from a readable 2xx refresh response on: the session is stored,
\* config.accessToken is updated, and warmup / transcribe go on to their request
ClientRefreshStore(p, data) ==
    LET c == op[p].client
        newToken == AuthSession(data).accessToken IN
    /\ Assign(AuthSession(data))
    /\ clients' = [clients EXCEPT ![c].accessToken = newToken]
    /\ Send(p, op[p], newToken)

\* faulty variant: when the refresh throws but the store holds another session than
\* the one whose token was sent, the request goes out with the token of that session
ClientRefreshThrow_usesStored(p, o) ==
    /\ IF currentSession # <<>> /\ currentSession[1].refreshToken # op[p].sentRefreshToken
       THEN Send(p, op[p], currentSession[1].accessToken)
       ELSE TokenStepFailed(p, op[p], RefreshError(o))
    /\ UNCHANGED <<currentSession, objects, clients>>

\* ensureValidToken() when the refresh it awaits throws
ClientRefreshThrow(p, o) ==
    /\ TokenStepFailed(p, op[p], RefreshError(o))
    /\ UNCHANGED <<currentSession, objects, clients>>

\* the outcome of the fetch of a refresh, whoever started it, while the provider has
\* issued fewer than max sessions
RefreshResponseUpTo(p, o, lifetime, max) ==
    /\ Quiet
    /\ op[p].pc = "refresh_wait"
    /\ Answers(provider, op[p].sentRefreshToken, o)
    /\ reply' = [reply EXCEPT ![p] = ReplyOf("idp", o)]
    /\ IF IdpSuccess(o)
       THEN /\ issued < max
            /\ issued' = issued + 1
            /\ IF op[p].kind \in ClientKinds
               THEN ClientRefreshStore(p, SupabaseSession(issued + 1, now, lifetime))
               ELSE RefreshStore(p, SupabaseSession(issued + 1, now, lifetime))
       ELSE /\ UNCHANGED issued
            /\ IF op[p].kind \in ClientKinds
               THEN ClientRefreshThrow(p, o)
               ELSE RefreshThrow(p, o)
    /\ provider' = Consume(provider, op[p].sentRefreshToken, o)
    /\ UNCHANGED <<codec, retrying, now, ticks>>

RefreshResponse(p, o, lifetime) == RefreshResponseUpTo(p, o, lifetime, MaxTokens)

\* faulty variant: a 401 makes request() send the request once more
ServiceFinish_retry401(p, o) ==
    IF o.type = "response" /\ o.status = 401 /\ op[p].svcReqs < 2
    THEN Send(p, op[p], op[p].attached)
    ELSE LET r == AfterRequest(op[p].kind, request(o, op[p].kind)) IN
         /\ op' = [op EXCEPT ![p].pc = "done", ![p].error = r.error, ![p].retData = r.data]
         /\ UNCHANGED minted

\* faulty variant: the calls share one timeout signal, a timeout ends every request
\* in flight
ServiceFinish_sharedSignal(p, o) ==
    LET r == AfterRequest(op[p].kind, request(o, op[p].kind)) IN
    /\ op' = [q \in Procs |->
                IF q = p
                THEN [op[q] EXCEPT !.pc = "done", !.error = r.error, !.retData = r.data]
                ELSE IF SignalFired(o) /\ op[q].pc = "service_wait"
                THEN [op[q] EXCEPT !.pc = "done", !.error = RequestCatch(NativeError("TimeoutError"))]
                ELSE op[q]]
    /\ UNCHANGED minted

\* request() from the outcome of its fetch on: warmup / transcribe return or throw
ServiceFinish(p, o) ==
    LET r == AfterRequest(op[p].kind, request(o, op[p].kind)) IN
    /\ op' = [op EXCEPT ![p].pc = "done", ![p].error = r.error, ![p].retData = r.data]
    /\ UNCHANGED minted

ServiceResponse(p, o) ==
    /\ Quiet
    /\ op[p].pc = "service_wait"
    /\ reply' = [reply EXCEPT ![p] = ReplyOf("svc", o)]
    /\ ServiceFinish(p, o)
    /\ UNCHANGED <<provider, codec, retrying, now, ticks, issued, currentSession, objects, clients>>

\* ------------------------------------------------------------------------
\* WisprClient.create
\* ------------------------------------------------------------------------
\* create builds its own WisprAuth: the auth of the model stands for it when it
\* holds no session and no client is built with it
FreshAuth == currentSession = <<>> /\ \A c \in Clients : ~clients[c].built

\* create(config) up to the fetch of its sign-in: a missing field is refused at
\* once; fetch rejects a URL it cannot parse without sending anything
CreateCall(p, config) ==
    /\ Quiet
    /\ Free(p)
    /\ FreshAuth
    /\ LET rec == [Called("create", 0, 0) EXCEPT !.config = config] IN
       IF FirstMissing(config) # 0
       THEN op' = [op EXCEPT ![p] =
                     [rec EXCEPT !.pc = "done",
                                 !.error = WisprValidationError(
                                     RequiredFields[FirstMissing(config)], "Missing")]]
       ELSE IF ConfigField(config, "supabaseUrl") = "malformed"
       THEN op' = [op EXCEPT ![p] = [rec EXCEPT !.pc = "done",
                                                !.error = NativeError("TypeError")]]
       ELSE op' = [op EXCEPT ![p] = [rec EXCEPT !.pc = "create_wait", !.signInReqs = 1,
                                                !.credentials = Credentials,
                                                !.signInBody = SignInBody(Credentials)]]
    /\ UNCHANGED <<provider, codec, retrying, now, ticks, minted, issued, currentSession, objects, clients, reply>>

\* create from the outcome of the sign-in on: the session is stored in the auth,
\* then the constructor validates the configuration and builds the client
CreateResponse(p, o, lifetime) ==
    /\ Quiet
    /\ op[p].pc = "create_wait"
    /\ reply' = [reply EXCEPT ![p] = ReplyOf("idp", o)]
    /\ IF IdpSuccess(o)
       THEN /\ issued < MaxTokens
            /\ issued' = issued + 1
            /\ Assign(AuthSession(SupabaseSession(issued + 1, now, lifetime)))
            /\ IF ConfigSchemaOk(op[p].config)
               THEN /\ clients' = [clients EXCEPT ![1] =
                                     [built |-> TRUE, auth |-> TRUE,
                                      accessToken |-> issued + 1,
                                      userUuid |-> "uuid", basetenUrl |-> "url",
                                      basetenApiKey |-> "key",
                                      tokenRefreshBuffer |-> ClientBuffer(1)]]
                    /\ op' = [op EXCEPT ![p].pc = "done"]
               ELSE /\ op' = [op EXCEPT ![p].pc = "done",
                                        ![p].error = WisprValidationError(
                                            "Invalid configuration", "basetenUrl")]
                    /\ UNCHANGED clients
       ELSE /\ op' = [op EXCEPT ![p].pc = "done", ![p].error = SignInError(o)]
            /\ UNCHANGED <<issued, currentSession, objects, clients>>
    /\ UNCHANGED <<provider, codec, retrying, now, ticks, minted>>

\* ------------------------------------------------------------------------
\* WisprAuth.checkUserStatus
\* ------------------------------------------------------------------------
\* the error checkUserStatus throws for outcome o of its fetch (o is not a readable 2xx)
CheckUserStatusError(o) ==
    IF o.type = "netfail" THEN NativeError("TypeError")
    ELSE IF ~ResponseOk(o.status)
    THEN WisprApiError("Failed to check user status", o.status, "undefined")
    ELSE NativeError("ZodError")

\* checkUserStatus(email), up to its fetch: no session is needed and none is read
CheckUserStatusCall(p) ==
    /\ Quiet
    /\ Free(p)
    /\ op' = [op EXCEPT ![p] = [Called("checkUserStatus", 0, 0) EXCEPT !.pc = "status_wait",
                                                                         !.statusReqs = 1]]
    /\ UNCHANGED <<provider, codec, retrying, now, ticks, minted, issued, currentSession, objects, clients, reply>>

\* checkUserStatus from the outcome of its fetch on
CheckUserStatusResponse(p, o) ==
    /\ Quiet
    /\ op[p].pc = "status_wait"
    /\ reply' = [reply EXCEPT ![p] = ReplyOf("api", o)]
    /\ IF IdpSuccess(o)
       THEN op' = [op EXCEPT ![p].pc = "done", ![p].retData = ResponseJson(o.body)]
       ELSE op' = [op EXCEPT ![p].pc = "done", ![p].error = CheckUserStatusError(o)]
    /\ UNCHANGED <<provider, codec, retrying, now, ticks, minted, issued, currentSession, objects, clients>>

\* ------------------------------------------------------------------------
\* WisprAuth.signInWithWisprApi
\* ------------------------------------------------------------------------
\* signInWithWisprApi(credentials), up to its fetch
SignInWithWisprApiCall(p) ==
    /\ Quiet
    /\ Free(p)
    /\ op' = [op EXCEPT ![p] = [Called("signInWithWisprApi", 0, 0) EXCEPT
                                    !.pc = "vendor_wait", !.vendorReqs = 1,
                                    !.credentials = Credentials]]
    /\ UNCHANGED <<provider, codec, retrying, now, ticks, minted, issued, currentSession, objects, clients, reply>>

\* the outcome of its fetch: a 2xx body carries an access token of the given text and
\* the given error field
SignInWithWisprApiResponse(p, o, text, error) ==
    /\ Quiet
    /\ op[p].pc = "vendor_wait"
    /\ reply' = [reply EXCEPT ![p] = ReplyOf("api", o)]
    /\ IF IdpSuccess(o)
       THEN LET result == WisprSignInResponse(issued + 1, text, error)
                r == VendorSignIn(result) IN
            IF r.error = NoError
            THEN /\ issued < MaxTokens
                 /\ issued' = issued + 1
                 /\ Assign(r.session[1])
                 /\ op' = [op EXCEPT ![p].pc = "done", ![p].vendorBody = result,
                                     ![p].retSession = currentSession',
                                     ![p].retRef = objects'.ref,
                                     ![p].grantedAt = now]
            ELSE /\ op' = [op EXCEPT ![p].pc = "done", ![p].vendorBody = result,
                                     ![p].error = r.error]
                 /\ UNCHANGED <<issued, currentSession, objects>>
       ELSE /\ op' = [op EXCEPT ![p].pc = "done", ![p].error = VendorSignInError(o)]
            /\ UNCHANGED <<issued, currentSession, objects>>
    /\ UNCHANGED <<provider, codec, retrying, now, ticks, minted, clients>>

\* ------------------------------------------------------------------------
\* toBase64 and fromBase64ToBytes, applied one after the other
\* ------------------------------------------------------------------------
ToBase64Call(data) ==
    /\ codec.pc = "idle"
    /\ codec' = [pc |-> "encoded", data |-> data, base64 |-> toBase64(data), bytes |-> <<>>]
    /\ UNCHANGED <<provider, retrying, now, ticks, minted, issued, currentSession, objects,
                   clients, op, reply>>

FromBase64ToBytesCall ==
    /\ codec.pc = "encoded"
    /\ codec' = [codec EXCEPT !.pc = "decoded", !.bytes = fromBase64ToBytes(codec.base64)]
    /\ UNCHANGED <<provider, retrying, now, ticks, minted, issued, currentSession, objects,
                   clients, op, reply>>

\* the caller drops the result
CodecReturn ==
    /\ codec.pc = "decoded"
    /\ codec' = NoCodec
    /\ UNCHANGED <<provider, retrying, now, ticks, minted, issued, currentSession, objects,
                   clients, op, reply>>

\* ------------------------------------------------------------------------
\* retry
\* ------------------------------------------------------------------------
\* the head of the for loop: attempt <= maxRetries enters the body, which invokes fn;
\* otherwise the loop is left and lastError is thrown
RetryLoop(r) ==
    IF r.attempt <= MaxRetriesOf(r.options)
    THEN [r EXCEPT !.pc = "fn_wait", !.calls = @ + 1]
    ELSE [r EXCEPT !.pc = "done", !.outcome = "threw", !.thrown = r.lastError]

\* faulty variant: the first error is kept
RetryCatch_keepsFirstError(r) ==
    LET caught == [r EXCEPT !.settled = @ + 1,
                            !.lastError = IF @ = 0 THEN r.calls ELSE @] IN
    IF caught.attempt = MaxRetriesOf(caught.options)
    THEN [caught EXCEPT !.pc = "done", !.outcome = "threw", !.thrown = caught.lastError]
    ELSE [caught EXCEPT !.pc = "sleeping",
                        !.waits = Append(@, Delay(BaseDelayMsOf(caught.options),
                                                  MaxDelayMsOf(caught.options),
                                                  caught.attempt))]

\* the catch block: the error is kept; after the last attempt the loop is left and
\* the error thrown, otherwise sleep(delay) is awaited
RetryCatch(r) ==
    LET caught == [r EXCEPT !.settled = @ + 1, !.lastError = r.calls] IN
    IF caught.attempt = MaxRetriesOf(caught.options)
    THEN [caught EXCEPT !.pc = "done", !.outcome = "threw", !.thrown = caught.lastError]
    ELSE [caught EXCEPT !.pc = "sleeping",
                        !.waits = Append(@, Delay(BaseDelayMsOf(caught.options),
                                                  MaxDelayMsOf(caught.options),
                                                  caught.attempt))]

\* retry(fn, options) up to its first await
RetryCall(options) ==
    /\ retrying.pc = "idle"
    /\ retrying' = RetryLoop([NoRetry EXCEPT !.options = options])
    /\ UNCHANGED <<provider, codec, now, ticks, minted, issued, currentSession, objects,
                   clients, op, reply>>

\* the invocation of fn that retry awaits returns (ok) or throws
FnSettles(ok) ==
    /\ retrying.pc = "fn_wait"
    /\ retrying' = IF ok
                   THEN [retrying EXCEPT !.pc = "done", !.settled = @ + 1,
                                         !.outcome = "returned", !.value = retrying.calls]
                   ELSE RetryCatch(retrying)
    /\ UNCHANGED <<provider, codec, now, ticks, minted, issued, currentSession, objects,
                   clients, op, reply>>

\* the timer of sleep(delay) fires: attempt++ and the head of the loop
SleepEnds ==
    /\ retrying.pc = "sleeping"
    /\ retrying' = RetryLoop([retrying EXCEPT !.attempt = @ + 1])
    /\ UNCHANGED <<provider, codec, now, ticks, minted, issued, currentSession, objects,
                   clients, op, reply>>

\* the caller has the result of retry
RetryReturn ==
    /\ retrying.pc = "done"
    /\ retrying' = NoRetry
    /\ UNCHANGED <<provider, codec, now, ticks, minted, issued, currentSession, objects,
                   clients, op, reply>>

\* ------------------------------------------------------------------------
\* Specifications
\* ------------------------------------------------------------------------
\* Spec: two callers, every interleaving of their operations
Next ==
    \/ \E d \in TickSteps : Tick(d)
    \/ \E p \in Procs : Return(p)
    \/ \E p \in Procs : SignInCall(p)
    \/ \E p \in Procs, o \in CommonIdpOutcomes, l \in Lifetimes : SignInResponse(p, o, l)
    \/ \E p \in Procs : RefreshSessionCall(p)
    \/ \E p \in Procs : GetValidAccessTokenCall(p)
    \/ \E p \in Procs, o \in CommonIdpOutcomes, l \in Lifetimes : RefreshResponse(p, o, l)
    \/ \E p \in Procs : SignOutCall(p)
    \/ \E p \in Procs, o \in CommonIdpOutcomes : SignOutResponse(p, o)
    \/ \E c \in Clients : NewClient(c)
    \/ \E p \in Procs, c \in Clients, k \in ClientKinds : ServiceCall(p, c, k)
    \/ \E p \in Procs, o \in CommonSvcOutcomes : ServiceResponse(p, o)

Spec == Init /\ [][Next]_vars

\* SpecSeq: one caller that awaits each operation before it starts the next, over a
\* longer stretch of time and with every outcome of every fetch
SeqNext ==
    \/ \E d \in TickSteps : TickUpTo(d, MaxSeqTicks)
    \/ Return(1)
    \/ SignInCall(1)
    \/ \E o \in IdpOutcomes, l \in Lifetimes : SignInResponse(1, o, l)
    \/ RefreshSessionCall(1)
    \/ GetValidAccessTokenCall(1)
    \/ \E o \in IdpOutcomes, l \in Lifetimes : RefreshResponse(1, o, l)
    \/ SignOutCall(1)
    \/ \E o \in IdpOutcomes : SignOutResponse(1, o)
    \/ \E c \in Clients : NewClient(c)
    \/ \E c \in Clients, k \in ClientKinds : ServiceCall(1, c, k)
    \/ \E o \in SvcOutcomes : ServiceResponse(1, o)
    \/ \E config \in Configs : CreateCall(1, config)
    \/ \E o \in IdpOutcomes, l \in Lifetimes : CreateResponse(1, o, l)
    \/ CheckUserStatusCall(1)
    \/ \E o \in IdpOutcomes : CheckUserStatusResponse(1, o)

SpecSeq == Init /\ [][SeqNext]_vars

\* SpecTranscribe: two callers of transcribe on clients of a signed-in auth, with
\* every request
TranscribeNext ==
    \/ \E p \in Procs : Return(p)
    \/ \E p \in Procs : SignInCall(p)
    \/ \E p \in Procs, o \in CommonIdpOutcomes, l \in Lifetimes : SignInResponse(p, o, l)
    \/ \E c \in Clients : NewClient(c)
    \/ \E p \in Procs, c \in Clients :
          \E req \in (IF \A q \in Procs : op[q].pc = "idle"
                      THEN TranscriptionRequests ELSE ConcurrentRequests) :
              TranscribeCall(p, c, req)
    \/ \E p \in Procs, o \in TranscriptionOutcomes : ServiceResponse(p, o)

SpecTranscribe == Init /\ [][TranscribeNext]_vars

\* SpecSession: two callers of signIn, refreshSession and signOut on the one auth, with
\* enough sessions issued for two refreshes of a signed-in auth to succeed
SessionNext ==
    \/ \E d \in TickSteps : Tick(d)
    \/ \E p \in Procs : Return(p)
    \/ \E p \in Procs : SignInCall(p)
    \/ \E p \in Procs, o \in CommonIdpOutcomes, l \in Lifetimes :
          SignInResponseUpTo(p, o, l, MaxSessionTokens)
    \/ \E p \in Procs : RefreshSessionCall(p)
    \/ \E p \in Procs, o \in CommonIdpOutcomes, l \in Lifetimes :
          RefreshResponseUpTo(p, o, l, MaxSessionTokens)
    \/ \E p \in Procs : SignOutCall(p)
    \/ \E p \in Procs, o \in CommonIdpOutcomes : SignOutResponse(p, o)

SpecSession == Init /\ [][SessionNext]_vars

\* SpecTimeout: two callers of warmup / transcribe and of refreshSession, with requests
\* whose timeout fires before the response or while its body is read
TimeoutNext ==
    \/ \E d \in TickSteps : Tick(d)
    \/ \E p \in Procs : Return(p)
    \/ \E p \in Procs : SignInCall(p)
    \/ \E p \in Procs, o \in CommonIdpOutcomes, l \in Lifetimes : SignInResponse(p, o, l)
    \/ \E p \in Procs : RefreshSessionCall(p)
    \/ \E p \in Procs, o \in CommonIdpOutcomes, l \in Lifetimes : RefreshResponse(p, o, l)
    \/ \E c \in Clients : NewClient(c)
    \/ \E p \in Procs, c \in Clients, k \in ClientKinds : ServiceCall(p, c, k)
    \/ \E p \in Procs, o \in TimeoutOutcomes : ServiceResponse(p, o)

SpecTimeout == Init /\ [][TimeoutNext]_vars

\* SpecRotation: two callers on an auth whose identity provider either invalidates a
\* refresh token on its first use or lets it be used again
InitRotation == \E policy \in RefreshPolicies : InitWith(policy)

RotationNext ==
    \/ \E d \in TickSteps : Tick(d)
    \/ \E p \in Procs : Return(p)
    \/ \E p \in Procs : SignInCall(p)
    \/ \E p \in Procs, o \in CommonIdpOutcomes, l \in Lifetimes :
          SignInResponseUpTo(p, o, l, MaxSessionTokens)
    \/ \E p \in Procs : RefreshSessionCall(p)
    \/ \E p \in Procs, t \in 1..MaxSessionTokens : RefreshSessionWithCall(p, t)
    \/ \E p \in Procs, o \in CommonIdpOutcomes, l \in Lifetimes :
          RefreshResponseUpTo(p, o, l, MaxSessionTokens)
    \/ NewClient(1)
    \/ \E p \in Procs : ServiceCall(p, 1, "warmup")
    \/ \E p \in Procs, o \in {r \in CommonSvcOutcomes : r.status = 200} : ServiceResponse(p, o)

SpecRotation == InitRotation /\ [][RotationNext]_vars

\* SpecConstruct: one caller that signs in and out, builds clients with any options
\* and uses them
ConstructNext ==
    \/ Return(1)
    \/ SignInCall(1)
    \/ \E o \in CommonIdpOutcomes, l \in Lifetimes : SignInResponse(1, o, l)
    \/ SignOutCall(1)
    \/ \E o \in CommonIdpOutcomes : SignOutResponse(1, o)
    \/ \E c \in Clients, options \in ClientOptions : ConstructCall(1, c, options)
    \/ \E c \in Clients : ServiceCall(1, c, "warmup")
    \/ \E o \in CommonSvcOutcomes : ServiceResponse(1, o)

SpecConstruct == Init /\ [][ConstructNext]_vars

\* SpecBase64: toBase64 applied to every byte sequence up to MaxBytes bytes, and
\* fromBase64ToBytes to its result
Base64Next ==
    \/ \E data \in ByteSequences : ToBase64Call(data)
    \/ FromBase64ToBytesCall
    \/ CodecReturn

SpecBase64 == Init /\ [][Base64Next]_vars

\* SpecLive: the one caller of SpecSeq with the scheduling the code provides: a
\* settled promise resumes its caller, and the timer of createTimeoutSignal aborts
\* the fetch of request(). The fetches of WisprAuth carry no signal: nothing
\* obliges them to end
TimerFires(p) == \E o \in SvcOutcomes : o.type = "abort" /\ ServiceResponse(p, o)

SpecLive == Init /\ [][SeqNext]_vars /\ WF_vars(Return(1)) /\ WF_vars(TimerFires(1))

\* SpecManual: one caller that signs in, builds clients with and without the auth,
\* updates their token and uses them, while time passes
ManualNext ==
    \/ \E d \in TickSteps : Tick(d)
    \/ Return(1)
    \/ SignInCall(1)
    \/ \E o \in CommonIdpOutcomes, l \in Lifetimes : SignInResponse(1, o, l)
    \/ \E c \in Clients, options \in AcceptedOptions : ConstructCall(1, c, options)
    \/ \E c \in Clients, t \in 1..MaxTokens : UpdateAccessTokenCall(1, c, t)
    \/ \E c \in Clients, k \in ClientKinds : ServiceCall(1, c, k)
    \/ \E o \in CommonIdpOutcomes, l \in Lifetimes : RefreshResponse(1, o, l)
    \/ \E o \in CommonSvcOutcomes : ServiceResponse(1, o)

SpecManual == Init /\ [][ManualNext]_vars

\* SpecVendor: one caller that signs in through the vendor's endpoint, with every
\* outcome of the fetch and every body, and signs out, while time passes
VendorNext ==
    \/ \E d \in TickSteps : Tick(d)
    \/ Return(1)
    \/ SignInWithWisprApiCall(1)
    \/ \E o \in IdpOutcomes, l \in Lifetimes, error \in VendorErrors :
          \E text \in AccessTokenTexts(now + l) : SignInWithWisprApiResponse(1, o, text, error)
    \/ SignOutCall(1)
    \/ \E o \in CommonIdpOutcomes : SignOutResponse(1, o)

SpecVendor == Init /\ [][VendorNext]_vars

\* SpecRetry: retry with every option record, each invocation of fn returning or
\* throwing
RetryNext ==
    \/ \E options \in RetryOptionRecords : RetryCall(options)
    \/ \E ok \in BOOLEAN : FnSettles(ok)
    \/ SleepEnds
    \/ RetryReturn

SpecRetry == Init /\ [][RetryNext]_vars

\* SpecRetryLive: every invocation of fn terminates, and timers fire
FnTerminates == \E ok \in BOOLEAN : FnSettles(ok)

SpecRetryLive == Init /\ [][RetryNext]_vars /\ WF_vars(FnTerminates) /\ WF_vars(SleepEnds)

\* ------------------------------------------------------------------------
\* Properties
\* ------------------------------------------------------------------------
Stored == currentSession[1]

\* the last fetch of p was a refresh or sign-in the identity provider did not grant
IdpRefused(p) == reply[p].from = "idp" /\ ~IdpSuccess(reply[p])

\* the token step of warmup / transcribe p failed: no session to refresh, or the
\* refresh was not granted
TokenStepLost(p) == ~op[p].hadSession \/ IdpRefused(p)

\* C1: for every buffer b >= 0, isSessionExpired(b) is true exactly when no session
\* is stored or now >= expiresAt - b
C1_IsSessionExpiredExact ==
    \A b \in Buffers :
        isSessionExpired(currentSession, now, b)
            = (IF currentSession = <<>> THEN TRUE ELSE now >= Stored.expiresAt - b)

\* a getValidAccessToken call made exactly at expiresAt - 60 found the session
\* expired, while it is not expired for the buffers 0 and 1
C1_Witness ==
    /\ currentSession # <<>>
    /\ now = Stored.expiresAt - DefaultBufferSeconds
    /\ isSessionExpired(currentSession, now, 60)
    /\ ~isSessionExpired(currentSession, now, 1)
    /\ \E p \in Procs : op[p].kind = "getValidAccessToken" /\ op[p].pc = "refresh_wait"

\* C2: a call of getValidAccessToken without a session fails with AuthError and
\* sends nothing; with a session it sends one refresh request if the session is
\* within 60 s of its expiry at the call and none otherwise, and never a second one
C2_GetValidAccessTokenRefreshesOnce ==
    \A p \in Procs : op[p].kind = "getValidAccessToken" =>
        /\ op[p].signInReqs = 0 /\ op[p].logoutReqs = 0 /\ op[p].svcReqs = 0
        /\ ~op[p].hadSession =>
              /\ op[p].pc = "done"
              /\ op[p].error.class = "WisprAuthError"
              /\ op[p].refreshReqs = 0
        /\ op[p].hadSession => op[p].refreshReqs = (IF op[p].lapsed THEN 1 ELSE 0)

\* a call that refreshed has returned the token of the session the refresh stored
C2_Witness ==
    \E p \in Procs :
        /\ op[p].kind = "getValidAccessToken" /\ op[p].pc = "done"
        /\ op[p].lapsed /\ op[p].refreshReqs = 1
        /\ op[p].error.class = "none"
        /\ currentSession # <<>> /\ op[p].retToken = Stored.accessToken

\* C3: the access token warmup / transcribe attach to their request is the
\* accessToken of the session stored at the moment the request is sent
C3_AttachedTokenIsStoredToken ==
    [][\A p \in Procs :
          op'[p].svcReqs > op[p].svcReqs =>
              /\ currentSession' # <<>>
              /\ op'[p].attached = currentSession'[1].accessToken]_vars

\* C4: warmup / transcribe send their request once when the token step succeeds and
\* never when it fails, and send nothing more whatever the answer is
C4_ExactlyOneDispatch ==
    \A p \in Procs : op[p].kind \in ClientKinds =>
        /\ op[p].svcReqs <= 1
        /\ op[p].pc = "refresh_wait" => op[p].svcReqs = 0
        /\ op[p].pc = "service_wait" => op[p].svcReqs = 1
        /\ op[p].pc = "done" => op[p].svcReqs = (IF TokenStepLost(p) THEN 0 ELSE 1)

\* a request answered 401 has ended the call, one request sent
C4_Witness ==
    \E p \in Procs :
        /\ op[p].kind \in ClientKinds /\ op[p].pc = "done"
        /\ reply[p].from = "svc" /\ reply[p].type = "response" /\ reply[p].status = 401
        /\ op[p].svcReqs = 1

\* C5: no request is sent before the token step has ended, and when the token step
\* fails (no session, refresh rejected, refresh failed) warmup / transcribe end with
\* AuthError without having sent a request
C5_TokenStepBeforeDispatch ==
    \A p \in Procs : op[p].kind \in ClientKinds =>
        /\ op[p].pc = "refresh_wait" => op[p].svcReqs = 0
        /\ op[p].svcReqs > 0 => op[p].hadSession /\ (op[p].lapsed => op[p].refreshReqs = 1)
        /\ TokenStepLost(p) =>
              /\ op[p].pc = "done"
              /\ op[p].error.class = "WisprAuthError"
              /\ op[p].svcReqs = 0

\* a transcribe whose refresh failed at the transport level has ended with AuthError
C5_Witness ==
    \E p \in Procs :
        /\ op[p].kind = "transcribe" /\ op[p].pc = "done"
        /\ reply[p].from = "idp" /\ reply[p].type = "netfail"
        /\ op[p].refreshReqs = 1 /\ op[p].svcReqs = 0
        /\ op[p].error.class = "WisprAuthError"

\* p is a warmup / transcribe that has ended on the answer of the service
Answered(p) == op[p].kind \in ClientKinds /\ op[p].pc = "done" /\ reply[p].from = "svc"

\* the timeout signal fired before the response, or while the body of a 2xx was read
TimedOut(o) == o.type = "abort" \/ (o.type = "response" /\ ResponseOk(o.status) /\ o.read = "abort")

\* C6 as stated: 401 yields AuthError, every other non-2xx status s yields ApiError
\* with statusCode s and the response body, an abort or timeout yields TimeoutError,
\* and neither AuthError nor ApiError is wrapped into another error
C6_ClassificationCarriesBody ==
    \A p \in Procs : Answered(p) =>
        LET o == reply[p]
            e == op[p].error IN
        /\ (o.type = "response" /\ o.status = 401) =>
              e = WisprAuthError("Authentication failed. Token may be expired.", "undefined")
        /\ (o.type = "response" /\ ~ResponseOk(o.status) /\ o.status # 401) =>
              e = WisprApiError("API request failed", o.status, o.body)
        /\ TimedOut(o) => e.class = "WisprTimeoutError"

\* C6 as amended: the ApiError of a non-2xx, non-401 status s carries statusCode s and
\* the response body, or "Unknown error" when the body could not be read (also when
\* the timeout fires while it is read); the rest as stated
C6_ClassificationCarriesBodyOrPlaceholder ==
    \A p \in Procs : Answered(p) =>
        LET o == reply[p]
            e == op[p].error IN
        /\ (o.type = "response" /\ o.status = 401) =>
              e = WisprAuthError("Authentication failed. Token may be expired.", "undefined")
        /\ (o.type = "response" /\ ~ResponseOk(o.status) /\ o.status # 401) =>
              e = WisprApiError("API request failed", o.status,
                                IF o.read = "ok" THEN o.body ELSE "Unknown error")
        /\ TimedOut(o) => e.class = "WisprTimeoutError"

\* a 500 whose body could not be read has ended the call with ApiError 500, and a
\* readable one carries its body
C6_Witness ==
    \E p \in Procs :
        /\ Answered(p)
        /\ reply[p].type = "response" /\ reply[p].status = 500 /\ reply[p].read = "abort"
        /\ op[p].error.class = "WisprApiError" /\ op[p].error.statusCode = 500
        /\ op[p].error.details = "Unknown error"

\* p has ended on a refresh that failed: refused by the provider, or never sent for
\* want of a refresh token
RefreshLost(p) ==
    /\ op[p].pc = "done"
    /\ op[p].kind \in {"refreshSession", "getValidAccessToken"} \cup ClientKinds
    /\ \/ IdpRefused(p)
       \/ op[p].kind \in {"refreshSession"} \cup ClientKinds /\ ~op[p].hadSession

\* C7 as stated: once a refresh has failed no session is stored
C7_RefreshFailureSignsOut ==
    \A p \in Procs : RefreshLost(p) => currentSession = <<>>

\* C7 as amended: the step in which a refresh fails leaves the stored session as it
\* was, a session that was stored is still stored
C7_RefreshFailureKeepsSession ==
    [][\A p \in Procs :
          (op[p].pc # "done" /\ RefreshLost(p)') => currentSession' = currentSession]_vars

\* a rejected refreshSession() has ended and the session it tried to refresh is stored
C7_Witness ==
    \E p \in Procs :
        /\ RefreshLost(p) /\ op[p].kind = "refreshSession"
        /\ reply[p].type = "response" /\ reply[p].status = 400
        /\ currentSession # <<>>
        /\ Stored.refreshToken = op[p].sentRefreshToken

\* C8: the stored session changes only in the step that completes a granted sign-in,
\* a granted refresh, or a signOut
C8_SessionWrittenOnlyOnSuccess ==
    [][currentSession' # currentSession =>
          \E p \in Procs :
              /\ op[p].pc # "done"
              /\ \/ /\ op[p].pc = "signIn_wait" /\ op'[p].pc = "done"
                    /\ IdpSuccess(reply'[p]) /\ op'[p].error.class = "none"
                 \/ /\ op[p].pc = "refresh_wait" /\ op'[p].pc \in {"done", "service_wait"}
                    /\ IdpSuccess(reply'[p]) /\ op'[p].error.class = "none"
                 \/ op'[p].kind = "signOut" /\ op'[p].pc = "done"]_vars

\* a sign-in was rejected while a session was stored, and that session is still stored
C8_Witness ==
    \E p \in Procs :
        /\ op[p].kind = "signIn" /\ op[p].pc = "done"
        /\ op[p].hadSession /\ op[p].error.class = "WisprAuthError"
        /\ currentSession # <<>>

\* C9: signOut throws nothing, has cleared the store when it completes whatever the
\* outcome of the revocation, and sends nothing when no session is stored
C9_SignOutNeverFails ==
    \A p \in Procs : op[p].kind = "signOut" =>
        /\ op[p].error.class = "none"
        /\ op[p].pc = "done" => currentSession = <<>>
        /\ op[p].logoutReqs = (IF op[p].hadSession THEN 1 ELSE 0)
        /\ op[p].signInReqs = 0 /\ op[p].refreshReqs = 0 /\ op[p].svcReqs = 0

\* a signOut whose revocation failed at the transport level has completed normally
C9_Witness ==
    \E p \in Procs :
        /\ op[p].kind = "signOut" /\ op[p].pc = "done"
        /\ reply[p].type = "netfail"
        /\ op[p].error.class = "none" /\ currentSession = <<>>

\* C10: a sign-in granted at time T for 3600 s stores and returns a session with
\* expiresAt = T + 3600, and isSessionExpired(60) on a session granted at T for 3600 s
\* is false from T to T + 3539 and true from T + 3541 on
C10_ScenarioA ==
    /\ \A p \in Procs :
          (op[p].kind = "signIn" /\ op[p].pc = "done" /\ op[p].error.class = "none") =>
              /\ op[p].retSession = currentSession
              /\ currentSession # <<>>
              /\ Stored.expiresAt = op[p].grantedAt + 3600
              /\ op[p].grantedAt = now
    /\ currentSession # <<>> =>
          LET T == Stored.expiresAt - 3600 IN
          /\ (T <= now /\ now < T + 3540) => ~isSessionExpired(currentSession, now, 60)
          /\ now >= T + 3541 => isSessionExpired(currentSession, now, 60)

\* the session of the sign-in at T = 0 is stored at T + 3541 and is expired
C10_Witness ==
    /\ issued = 1 /\ currentSession # <<>>
    /\ Stored.expiresAt = 3600 /\ now = 3541
    /\ isSessionExpired(currentSession, now, 60)

\* an operation of p has ended on an HTTP response with status in S
EndedOnStatus(p, S) ==
    op[p].pc = "done" /\ reply[p].type = "response" /\ reply[p].status \in S

\* C11: a 400 or a 401 answer to signIn gives AuthError "Invalid email or password",
\* a 400 or a 401 answer to refreshSession gives AuthError "Refresh token expired or
\* invalid", and the two messages differ
C11_CredentialMessages ==
    \A p \in Procs : EndedOnStatus(p, {400, 401}) =>
        /\ op[p].kind = "signIn" =>
              /\ op[p].error.class = "WisprAuthError"
              /\ op[p].error.message = "Invalid email or password"
        /\ op[p].kind \in {"refreshSession", "getValidAccessToken"} =>
              /\ op[p].error.class = "WisprAuthError"
              /\ op[p].error.message = "Refresh token expired or invalid. Please sign in again."
              /\ op[p].error.message # "Invalid email or password"

\* C12: every remote call that ends on a non-2xx status other than 401 (a 500 in
\* particular) fails with ApiError carrying that status
C12_Non2xxIsApiError ==
    \A p \in Procs :
        (op[p].kind # "signOut" /\ EndedOnStatus(p, (IdpStatuses \cup SvcStatuses) \ {200, 401})) =>
            /\ op[p].error.class = "WisprApiError"
            /\ op[p].error.statusCode = reply[p].status

\* the last fetch of p failed: no response, a non-2xx status, or a 2xx body that
\* cannot be read or decoded
RemoteFailure(p) ==
    \/ reply[p].type \in {"netfail", "abort"}
    \/ reply[p].type = "response" /\ ~(ResponseOk(reply[p].status) /\ reply[p].read = "ok")

\* C13: every failure of a remote call reaches the caller as an error of the
\* taxonomy, and only signOut swallows one
C13_OnlyTaxonomyErrorsEscape ==
    \A p \in Procs : op[p].pc = "done" =>
        /\ op[p].error.class \in Taxonomy \cup {"none"}
        /\ (RemoteFailure(p) /\ op[p].kind # "signOut") => op[p].error.class # "none"

\* the last fetch of p was answered with a 2xx status and a body that decodes
Decoded(p) ==
    /\ Answered(p)
    /\ reply[p].type = "response" /\ ResponseOk(reply[p].status) /\ reply[p].read = "ok"

\* C14: on a 2xx response whose body decodes, warmup / transcribe return without
\* error: the validated value when the body matches the schema, the raw decoded
\* value otherwise
C14_DecodableBodyReturns ==
    \A p \in Procs : Decoded(p) =>
        LET data == ResponseJson(reply[p].body)
            parseResult == SafeParse(op[p].kind, data) IN
        /\ op[p].error.class = "none"
        /\ op[p].retData = (IF parseResult.success THEN parseResult.data ELSE data)

\* C15: transcribe returns a 2xx response whose status is "empty" or "error" as a
\* normal value; a request without audio or with empty audio is sent, with audio ""
C15_EmptyIsNormalOutcome ==
    \A p \in Procs : op[p].kind = "transcribe" =>
        /\ (Decoded(p) /\ reply[p].body \in {"empty", "error"}) =>
              /\ op[p].error.class = "none"
              /\ op[p].retData.kind = "object"
              /\ op[p].retData.status = reply[p].body
        /\ (op[p].request.audioData \in {"", "undefined"} /\ ~op[p].lapsed /\ op[p].hadSession) =>
              /\ op[p].svcReqs = 1
              /\ op[p].payload.audio = ""
              /\ op[p].pc = "done" => reply[p].from = "svc"

\* a transcribe call with empty audio was sent and has returned the service's
\* answer of status "empty"
C15_Witness ==
    \E p \in Procs :
        /\ op[p].kind = "transcribe" /\ op[p].pc = "done"
        /\ op[p].request.audioData = "" /\ op[p].payload.audio = ""
        /\ reply[p].body = "empty"
        /\ op[p].error.class = "none" /\ op[p].retData.status = "empty"

\* the fields of create's argument that have a format: an e-mail address and two URLs
FormattedFields == {"email", "supabaseUrl", "basetenUrl"}

\* a required value of the configuration is missing, or malformed
BadConfig(config) ==
    \/ FirstMissing(config) # 0
    \/ \E f \in FormattedFields : ConfigField(config, f) = "malformed"

\* C16: create with a missing or malformed required value fails with
\* ValidationError, having sent nothing and stored no session
C16_CreateValidatesFirst ==
    \A p \in Procs : (op[p].kind = "create" /\ BadConfig(op[p].config)) =>
        /\ op[p].pc = "done"
        /\ op[p].error.class = "WisprValidationError"
        /\ op[p].signInReqs = 0
        /\ currentSession = <<>>

\* C17: the context transcribe sends has every field present, with the caller's
\* value where the caller supplied one and the default elsewhere, and building the
\* context of a built context changes nothing
C17_BuildContextTotalIdempotent ==
    \A p \in Procs : (op[p].kind = "transcribe" /\ op[p].svcReqs > 0) =>
        LET context == op[p].request.context
            built == op[p].payload.context IN
        /\ DOMAIN built = ContextFields
        /\ \A f \in ContextFields :
              /\ built[f] # "undefined"
              /\ built[f] = (IF ContextField(context, f) \in {"undefined", "null"}
                             THEN ContextDefault(f)
                             ELSE ContextField(context, f))
        /\ buildContext(TranscriptionContext(TRUE, built)) = built

\* a request whose context sets only app was sent with that app and the defaults
\* in the other fields
C17_Witness ==
    /\ \E p \in Procs :
          /\ op[p].kind = "transcribe" /\ op[p].svcReqs = 1
          /\ op[p].request.context.given
          /\ op[p].request.context.fields["app"] = CallerValue("app")
          /\ op[p].request.context.fields["ax_context"] = "undefined"
          /\ op[p].payload.context["app"] = CallerValue("app")
          /\ op[p].payload.context["ax_context"] = "[]"
          /\ op[p].payload.context["conversation"] = "null"

\* the identifiers taken from generateUuid() that calls have sent so far
SentBefore == {minted[n] : n \in 1..Len(minted)}

\* C18: a transcribe call sends the session_id and the transcript_entity_uuid its
\* caller supplied; where the caller supplied none it sends a minted identifier that
\* no call has sent before, so no two calls in flight share one
C18_FreshIdentifiers ==
    [][\A p \in Procs :
          (op'[p].kind = "transcribe" /\ op'[p].svcReqs > op[p].svcReqs) =>
              LET req == op'[p].request
                  payload == op'[p].payload IN
              /\ req.session_id # Undefined => payload.session_id = req.session_id
              /\ req.transcript_entity_uuid # Undefined =>
                    payload.transcript_entity_uuid = req.transcript_entity_uuid
              /\ req.session_id = Undefined =>
                    /\ payload.session_id \notin SentBefore
                    /\ \A q \in Procs \ {p} : op[q].payload.session_id # payload.session_id
              /\ req.transcript_entity_uuid = Undefined =>
                    /\ payload.transcript_entity_uuid \notin SentBefore
                    /\ \A q \in Procs \ {p} :
                          op[q].payload.transcript_entity_uuid # payload.transcript_entity_uuid]_vars

\* two transcribe calls without identifiers are in flight on the same client, with
\* different session_ids and different transcript_entity_uuids: four minted
\* identifiers have been sent
C18_Witness ==
    /\ op[1].kind = "transcribe" /\ op[2].kind = "transcribe"
    /\ op[1].pc = "service_wait" /\ op[2].pc = "service_wait"
    /\ op[1].client = op[2].client
    /\ op[1].request.session_id = Undefined /\ op[2].request.session_id = Undefined
    /\ op[1].request.transcript_entity_uuid = Undefined
    /\ op[2].request.transcript_entity_uuid = Undefined
    /\ op[1].payload.session_id # op[2].payload.session_id
    /\ op[1].payload.transcript_entity_uuid # op[2].payload.transcript_entity_uuid
    /\ Len(minted) = 4

\* the operations that refresh an expired session before they go on
RefreshingKinds == {"getValidAccessToken"} \cup ClientKinds

\* C19: a getValidAccessToken, warmup or transcribe that finds the stored session
\* expired sends its own refresh request with the stored refresh token, also while
\* the refresh of another operation is in flight: that one stays in flight, and it
\* carries the same refresh token if the store has not changed since it was sent
C19_NoSingleFlight ==
    [][\A q \in Procs :
          (/\ op[q].pc = "idle" /\ op'[q].pc # "idle"
           /\ op'[q].kind \in RefreshingKinds
           /\ op'[q].hadSession /\ op'[q].lapsed) =>
              /\ op'[q].pc = "refresh_wait"
              /\ op'[q].refreshReqs = 1
              /\ op'[q].sentRefreshToken = Stored.refreshToken
              /\ \A p \in Procs \ {q} : op[p].pc = "refresh_wait" =>
                    /\ op'[p].pc = "refresh_wait"
                    /\ op[p].sentRefreshToken = Stored.refreshToken =>
                          op'[q].sentRefreshToken = op'[p].sentRefreshToken]_vars

\* a getValidAccessToken and a warmup or transcribe both found the session expired
\* and the refresh requests of both are in flight
C19_Witness ==
    \E p, q \in Procs :
        /\ op[p].kind = "getValidAccessToken" /\ op[q].kind \in ClientKinds
        /\ op[p].lapsed /\ op[q].lapsed
        /\ op[p].pc = "refresh_wait" /\ op[q].pc = "refresh_wait"
        /\ op[p].refreshReqs = 1 /\ op[q].refreshReqs = 1
        /\ op[p].sentRefreshToken = op[q].sentRefreshToken
        /\ currentSession # <<>> /\ op[p].sentRefreshToken = Stored.refreshToken

\* ------------------------------------------------------------------------
\* C20: under any interleaving of signIn, refreshSession and signOut the store holds
\* nothing or one complete session built from a single response of the provider: the
\* store is only ever emptied or replaced as a whole by the session of the response
\* being processed, so after concurrent refreshes the session of the response
\* processed last is stored; every session object is written once, when it is built,
\* so a session returned to a caller is never changed afterwards
\* ------------------------------------------------------------------------
\* the session WisprAuth builds from the n-th response of the provider, granted at t
FromResponse(n, t) ==
    {AuthSession(SupabaseSession(n, t, l)) : l \in Lifetimes}

\* the store is empty, or holds an object that was written once
StoreWellFormed ==
    /\ objects.ref = 0 <=> currentSession = <<>>
    /\ \A k \in 1..Len(objects.writes) : objects.writes[k] = 1
    /\ currentSession # <<>> =>
          /\ objects.ref = Len(objects.writes)
          /\ currentSession[1].accessToken \in 1..issued
          /\ \E l \in Lifetimes :
                /\ currentSession[1].expiresAt - l \in 0..now
                /\ currentSession[1] \in FromResponse(currentSession[1].accessToken,
                                                       currentSession[1].expiresAt - l)

StoreStep ==
    /\ issued' # issued =>
          /\ currentSession' # <<>>
          /\ currentSession'[1] \in FromResponse(issued', now)
          /\ objects'.ref = Len(objects.writes) + 1
    /\ issued' = issued => currentSession' \in {currentSession, <<>>}
    /\ \A k \in 1..Len(objects.writes) : objects'.writes[k] = objects.writes[k]
    /\ \A p \in Procs :
          op[p].retRef = 0 /\ op'[p].retRef # 0 =>
              /\ op'[p].retRef = objects'.ref
              /\ op'[p].retSession = currentSession'

C20_SessionReplacedAtomically == []StoreWellFormed /\ [][StoreStep]_vars

\* a refresh sent with the refresh token of the first session is processed after a
\* concurrent operation has replaced that session by the second: its caller is
\* returned the third object, which the store holds, and no object was written twice
C20_Witness ==
    /\ issued = 3
    /\ objects = [ref |-> 3, writes |-> <<1, 1, 1>>]
    /\ currentSession # <<>> /\ currentSession[1].accessToken = 3
    /\ \E p \in Procs :
          /\ op[p].kind = "refreshSession" /\ op[p].pc = "done"
          /\ op[p].sentRefreshToken = 1
          /\ op[p].retRef = 3 /\ op[p].retSession = currentSession

\* ------------------------------------------------------------------------
\* C27: for every byte sequence d, fromBase64ToBytes(toBase64(d)) is d: the same
\* length and the same bytes in the same order
\* ------------------------------------------------------------------------
C27_Base64RoundTrip ==
    codec.pc = "decoded" =>
        /\ Len(codec.bytes) = Len(codec.data)
        /\ \A i \in 1..Len(codec.data) : codec.bytes[i] = codec.data[i]
        /\ Len(codec.base64) = 4 * ((Len(codec.data) + 2) \div 3)

\* two bytes above 127 went through both functions: the text is padded, the bytes
\* came back
C27_Witness ==
    /\ codec.pc = "decoded"
    /\ codec.data = <<128, 255>>
    /\ codec.base64 = <<"g", "P", "8", "=">>
    /\ codec.bytes = <<128, 255>>

\* ------------------------------------------------------------------------
\* C21: each warmup / transcribe request has its own timeout. When the timeout of
\* one call fires, that call alone ends: with WisprTimeoutError when no response had
\* arrived or a 2xx body was being read, with the WisprApiError of the status (and
\* the placeholder body) when a non-2xx body was being read. Every other operation
\* in flight, a refresh included, is left as it is and ends with the outcome of its
\* own fetch, and the stored session is not changed.
\* ------------------------------------------------------------------------
\* the timeout of p's request fires in this step
TimeoutStep(p) ==
    op[p].pc = "service_wait" /\ op'[p].pc = "done" /\ SignalFired(reply'[p])

\* nothing but p's own operation changes in this step
OnlyChanges(p) ==
    /\ \A q \in Procs \ {p} : op'[q] = op[q] /\ reply'[q] = reply[q]
    /\ currentSession' = currentSession
    /\ objects' = objects
    /\ clients' = clients

\* a finished operation ended as the outcome of its own last fetch has it end
OwnOutcome(p) ==
    op[p].pc = "done" =>
        /\ reply[p].from = "svc" =>
              LET r == AfterRequest(op[p].kind, request(reply[p], op[p].kind)) IN
              op[p].error = r.error /\ op[p].retData = r.data
        /\ reply[p].from = "idp" /\ op[p].refreshReqs = 1 /\ ~IdpSuccess(reply[p]) =>
              op[p].error = IF op[p].kind \in ClientKinds
                            THEN EnsureValidTokenError(RefreshError(reply[p]))
                            ELSE RefreshError(reply[p])

C21_TimeoutEndsOnlyItsCall ==
    /\ [](\A p \in Procs : OwnOutcome(p))
    /\ [][\A p \in Procs :
            TimeoutStep(p) =>
                /\ OnlyChanges(p)
                /\ op'[p].error =
                      IF reply'[p].type = "abort" \/ ResponseOk(reply'[p].status)
                      THEN WisprTimeoutError
                      ELSE WisprApiError("API request failed", reply'[p].status, "Unknown error")
         ]_vars

\* as stated: whenever the timeout of a call fires, the call fails with TimeoutError
C21_TimeoutIsTimeoutError ==
    [][\A p \in Procs :
          TimeoutStep(p) => OnlyChanges(p) /\ op'[p].error.class = "WisprTimeoutError"]_vars

\* a request has timed out while a refresh of the other caller is in flight
C21_Witness ==
    \E p, q \in Procs :
        /\ op[p].kind \in ClientKinds /\ op[p].pc = "done"
        /\ reply[p].type = "abort" /\ op[p].error = WisprTimeoutError
        /\ op[q].pc = "refresh_wait"
        /\ currentSession # <<>>

\* ------------------------------------------------------------------------
\* C22: against a provider that rotates refresh tokens. refreshSession() sends the
\* refresh token of the session stored when it is called, and refreshSession(t) sends
\* t. The refresh token of the stored session is never one the provider has
\* invalidated, so a refreshSession() during which no other operation replaces the
\* session (as in any sequence of calls awaited one after the other) is granted and
\* stores and returns a session with another refresh token; refreshSession(t) with a
\* token t that an earlier refresh used up throws WisprAuthError and leaves the store.
\* ------------------------------------------------------------------------
StoredTokenValid ==
    provider.policy = "rotating" /\ currentSession # <<>> =>
        currentSession[1].refreshToken \notin provider.consumed

\* p calls refreshSession in this step
RefreshSessionCalled(p) == op[p].pc = "idle" /\ op'[p].kind = "refreshSession"

\* the refresh request of refreshSession p is answered in this step
RefreshSessionAnswered(p) ==
    op[p].kind = "refreshSession" /\ op[p].pc = "refresh_wait" /\ op'[p].pc = "done"

RotationStep(p) ==
    /\ RefreshSessionCalled(p) /\ op'[p].refreshReqs = 1 =>
          op'[p].sentRefreshToken = IF op'[p].refreshArg # 0
                                    THEN op'[p].refreshArg
                                    ELSE currentSession[1].refreshToken
    /\ RefreshSessionAnswered(p) /\ provider.policy = "rotating" =>
          /\ /\ op[p].refreshArg = 0
             /\ currentSession # <<>>
             /\ currentSession[1].refreshToken = op[p].sentRefreshToken
             => /\ op'[p].error = NoError
                /\ currentSession' # <<>>
                /\ currentSession'[1].refreshToken # currentSession[1].refreshToken
                /\ op'[p].retSession = currentSession'
          /\ op[p].refreshArg \in provider.consumed =>
                /\ op'[p].error.class = "WisprAuthError"
                /\ op'[p].error.message =
                      "Refresh token expired or invalid. Please sign in again."
                /\ currentSession' = currentSession

C22_RotatedRefreshTokens ==
    []StoredTokenValid /\ [][\A p \in Procs : RotationStep(p)]_vars

\* the provider has granted two refreshes in turn, the third session is stored, and
\* refreshSession(1), with the refresh token of the first session, has thrown
C22_Witness ==
    /\ provider = Provider("rotating", {1, 2})
    /\ currentSession # <<>> /\ currentSession[1].refreshToken = 3
    /\ \E p \in Procs :
          /\ op[p].kind = "refreshSession" /\ op[p].pc = "done"
          /\ op[p].refreshArg = 1 /\ op[p].sentRefreshToken = 1
          /\ reply[p].status = 400
          /\ op[p].error.class = "WisprAuthError"

\* ------------------------------------------------------------------------
\* C23: refreshSession() called with no argument while no session is stored throws
\* WisprAuthError at once: it has sent no request of any kind, and the store is
\* still empty when it has thrown
\* ------------------------------------------------------------------------
\* p is a refreshSession() that found no session
RefreshWithoutToken(p) ==
    op[p].kind = "refreshSession" /\ op[p].refreshArg = 0 /\ ~op[p].hadSession

C23_NoTokenNoRequest ==
    \A p \in Procs :
        RefreshWithoutToken(p) =>
            /\ op[p].pc = "done"
            /\ op[p].error = NoRefreshTokenError
            /\ op[p].error.class = "WisprAuthError"
            /\ op[p].refreshReqs + op[p].signInReqs + op[p].logoutReqs
                 + op[p].svcReqs + op[p].statusReqs = 0
            /\ reply[p] = NoReply
            /\ currentSession = <<>>

\* refreshSession() has thrown on an auth that was signed out, while a sign-in of the
\* other caller is in flight
C23_Witness ==
    \E p, q \in Procs :
        /\ RefreshWithoutToken(p) /\ op[p].pc = "done"
        /\ op[p].error.class = "WisprAuthError"
        /\ op[q].pc = "signIn_wait"
        /\ issued > 0

\* ------------------------------------------------------------------------
\* C24: a client built with an auth and tokenRefreshBuffer B calls refreshSession()
\* before its warmup / transcribe request if and only if, at the call, no session is
\* stored or now >= expiresAt - B. With no session that refresh throws before any
\* request; with a session it sends exactly one refresh request. When
\* now < expiresAt - B the call sends nothing to the identity provider and goes
\* straight to its request.
\* ------------------------------------------------------------------------
\* warmup / transcribe is called by p in this step
ClientCalled(p) == op[p].pc = "idle" /\ op'[p].kind \in ClientKinds

\* the refresh of p's token step threw for want of a refresh token
RefreshThrewUnsent(rec) ==
    /\ rec.pc = "done"
    /\ rec.error = EnsureValidTokenError(NoRefreshTokenError)
    /\ rec.refreshReqs = 0 /\ rec.svcReqs = 0

RefreshDecision(p) ==
    ClientCalled(p) =>
        LET B == ClientBuffer(op'[p].client) IN
        /\ currentSession = <<>> => RefreshThrewUnsent(op'[p])
        /\ currentSession # <<>> /\ now >= currentSession[1].expiresAt - B =>
              op'[p].pc = "refresh_wait" /\ op'[p].refreshReqs = 1 /\ op'[p].svcReqs = 0
        /\ currentSession # <<>> /\ now < currentSession[1].expiresAt - B =>
              op'[p].pc = "service_wait" /\ op'[p].refreshReqs = 0 /\ op'[p].svcReqs = 1

\* a warmup / transcribe sends the identity provider nothing but that one refresh
OnlyThatRefresh ==
    \A p \in Procs : op[p].kind \in ClientKinds =>
        /\ op[p].refreshReqs = (IF op[p].hadSession /\ op[p].lapsed THEN 1 ELSE 0)
        /\ op[p].signInReqs = 0 /\ op[p].logoutReqs = 0 /\ op[p].statusReqs = 0
        /\ op[p].refreshReqs = 0 => reply[p].from # "idp"

C24_RefreshIffWithinBuffer ==
    []OnlyThatRefresh /\ [][\A p \in Procs : RefreshDecision(p)]_vars

\* 61 seconds before the expiry the client built with a buffer of 300 is refreshing
\* while the client built with the default of 60 has sent its request unrefreshed
C24_Witness ==
    /\ currentSession # <<>>
    /\ now = Stored.expiresAt - 61
    /\ \E p, q \in Procs :
          /\ op[p].kind \in ClientKinds /\ op[p].client = 2
          /\ op[p].pc = "refresh_wait" /\ op[p].refreshReqs = 1
          /\ op[q].kind \in ClientKinds /\ op[q].client = 1
          /\ op[q].pc = "service_wait" /\ op[q].refreshReqs = 0

\* ------------------------------------------------------------------------
\* C25: new WisprClient throws WisprValidationError, and no client exists, when it is
\* given an auth that holds no session, when it is given no auth and lacks
\* accessToken or userUuid, or when it is given no auth and userUuid is not a UUID.
\* Given an auth that holds a session it takes accessToken and userUuid from the
\* session, whatever the options say, and the client exists if the rest is valid.
\* ------------------------------------------------------------------------
\* p has called the constructor
Constructed(p) == op[p].kind = "new" /\ op[p].pc = "done"

\* the constructor called by p threw WisprValidationError and built nothing
Refused(p) ==
    /\ op[p].error.class = "WisprValidationError"
    /\ ~clients[op[p].client].built

C25_ConstructorValidates ==
    \A p \in Procs : Constructed(p) =>
        LET o == op[p].options IN
        /\ o.auth /\ ~op[p].hadSession => Refused(p)
        /\ ~o.auth /\ (o.accessToken = 0 \/ o.userUuid = "undefined") => Refused(p)
        /\ ~o.auth /\ o.userUuid = "malformed" => Refused(p)
        /\ o.auth /\ op[p].hadSession /\ o.basetenUrl = "url" /\ o.basetenApiKey = "key" =>
              /\ op[p].error = NoError
              /\ clients[op[p].client].built
              /\ clients[op[p].client].accessToken = Stored.accessToken
        /\ op[p].error.class \in {"none", "WisprValidationError"}
        /\ op[p].error = NoError <=> clients[op[p].client].built

\* C25 as stated: a userUuid that is not a UUID makes the constructor throw, with
\* or without an auth
C25_MalformedUuidAlwaysRefused ==
    \A p \in Procs : Constructed(p) =>
        LET o == op[p].options IN
        /\ o.auth /\ ~op[p].hadSession => Refused(p)
        /\ ~o.auth /\ (o.accessToken = 0 \/ o.userUuid = "undefined") => Refused(p)
        /\ o.userUuid = "malformed" => Refused(p)

\* the constructor was given a token and a userUuid that is not a UUID, without an
\* auth and with everything else valid, and has thrown
C25_Witness ==
    \E p \in Procs :
        /\ Constructed(p)
        /\ op[p].options = WisprClientOptions(FALSE, 1, "malformed", "url", "key")
        /\ op[p].error = WisprValidationError("Invalid configuration", "ZodIssues")
        /\ \A c \in Clients : ~clients[c].built

\* ------------------------------------------------------------------------
\* C26: the password given to signIn or to WisprClient.create is carried by the body
\* of the one sign-in request of that call and by nothing else: no field of the
\* stored session or of a client holds it, and no refresh or service request
\* carries it
\* ------------------------------------------------------------------------
\* the strings held by the stored session and by the clients
HeldBySdk ==
    (IF currentSession = <<>> THEN {}
     ELSE {Stored.accessToken, Stored.refreshToken, Stored.expiresAt})
    \cup {clients[c].accessToken : c \in Clients}

\* the strings carried by the refresh and service requests of p
CarriedElsewhere(p) ==
    {op[p].sentRefreshToken, op[p].attached, op[p].payload.access_token}

C26_PasswordNotKept ==
    /\ Password \notin HeldBySdk
    /\ \A p \in Procs :
          /\ Password \notin CarriedElsewhere(p)
          /\ op[p].signInReqs <= 1
          /\ op[p].signInReqs = 1 =>
                /\ op[p].kind \in {"signIn", "create"}
                /\ op[p].signInBody = SignInBody(op[p].credentials)
                /\ op[p].signInBody.password = Password
          /\ op[p].signInReqs = 0 => op[p].signInBody = NoBody
          /\ op[p].retSession # <<>> =>
                Password \notin {op[p].retSession[1].accessToken,
                                 op[p].retSession[1].refreshToken}

\* create has signed in with the password and built its client: the session is
\* stored, the client holds its token
C26_Witness ==
    \E p \in Procs :
        /\ op[p].kind = "create" /\ op[p].pc = "done" /\ op[p].error = NoError
        /\ op[p].signInBody.password = Password
        /\ currentSession # <<>>
        /\ clients[1].built /\ clients[1].accessToken = Stored.accessToken

\* ------------------------------------------------------------------------
\* C28: every invocation of warmup() or transcribe() eventually completes, with a
\* value or with an error of the taxonomy, even when an endpoint it contacts never
\* responds, provided that timers fire
\* ------------------------------------------------------------------------
Invoked(p) == op[p].kind \in ClientKinds /\ op[p].pc \in {"refresh_wait", "service_wait"}

\* the call has returned or thrown
Ended(p) == op[p].kind \in ClientKinds /\ op[p].pc = "done"

C28_EveryCallCompletes == \A p \in Procs : Invoked(p) ~> Ended(p)

\* the part that rests on the timer of request(): a call that has reached its request
\* completes, whatever the service does
C28_RequestCompletes ==
    \A p \in Procs : (op[p].kind \in ClientKinds /\ op[p].pc = "service_wait") ~> Ended(p)

\* ------------------------------------------------------------------------
\* C29: once signOut() has completed, getSession() stays absent until a signIn or
\* refreshSession started after that completion succeeds: an operation that was in
\* flight when signOut completed does not install a session afterwards
\* ------------------------------------------------------------------------
\* p was called while a session was stored and is still awaiting its fetch, and the
\* store is empty: a signOut has completed since p was called (signOut alone clears)
InFlightAcrossSignOut(p) ==
    /\ op[p].hadSession
    /\ op[p].pc \notin {"idle", "done"}
    /\ currentSession = <<>>

C29_NoReinstallAfterSignOut ==
    [][\A p \in Procs :
          InFlightAcrossSignOut(p) /\ op'[p] # op[p] => currentSession' = <<>>]_vars

\* ------------------------------------------------------------------------
\* C30: when two concurrent operations both refresh an expired session and the provider
\* invalidates a refresh token on its first use, the operation whose refresh request
\* is served second fails with WisprAuthError, although the session obtained by the
\* first refresh is stored at that moment (and stays stored); when the provider does
\* not invalidate refresh tokens, both operations succeed.
\* ------------------------------------------------------------------------
\* the refresh request of p is answered in this step
RefreshAnswered(p) == op[p].pc = "refresh_wait" /\ op'[p] # op[p]

\* p sent the refresh token that was stored when it was called, and another refresh
\* carrying that token has been granted since
ServedSecond(p) ==
    /\ op[p].pc = "refresh_wait"
    /\ op[p].refreshArg = 0
    /\ op[p].sentRefreshToken \in provider.consumed

ConcurrentRefreshStep(p) ==
    /\ provider.policy = "rotating" /\ ServedSecond(p) /\ RefreshAnswered(p) =>
          /\ op'[p].pc = "done"
          /\ op'[p].error.class = "WisprAuthError"
          /\ op'[p].svcReqs = 0
          /\ currentSession # <<>>
          /\ currentSession[1].refreshToken > op[p].sentRefreshToken
          /\ currentSession[1].refreshToken \notin provider.consumed
          /\ currentSession' = currentSession
    /\ provider.policy = "reusable" /\ RefreshAnswered(p) =>
          /\ op'[p].error = NoError
          /\ op'[p].pc = IF op[p].kind \in ClientKinds THEN "service_wait" ELSE "done"
          /\ currentSession' # <<>>
          /\ currentSession'[1].accessToken = issued'
          /\ op[p].kind \in ClientKinds => op'[p].attached = issued'

\* with a provider that does not invalidate refresh tokens, no operation that has sent
\* a refresh request ends in an error
ReusableSucceeds ==
    provider.policy = "reusable" =>
        \A p \in Procs : op[p].refreshReqs = 1 => op[p].error = NoError

C30_SecondServedRefreshFails ==
    []ReusableSucceeds /\ [][\A p \in Procs : ConcurrentRefreshStep(p)]_vars

\* two warmups have each sent the refresh token of the expired session 1; the first
\* served has stored session 2 and is awaiting its request with token 2, the second
\* served has thrown WisprAuthError while session 2, not expired, is stored
C30_Witness ==
    /\ provider = Provider("rotating", {1})
    /\ currentSession # <<>> /\ currentSession[1].accessToken = 2
    /\ ~isSessionExpired(currentSession, now, DefaultTokenRefreshBuffer)
    /\ \E p, q \in Procs :
          /\ op[q].kind = "warmup" /\ op[q].pc = "service_wait"
          /\ op[q].sentRefreshToken = 1 /\ op[q].attached = 2
          /\ op[p].kind = "warmup" /\ op[p].pc = "done"
          /\ op[p].lapsed /\ op[p].sentRefreshToken = 1
          /\ reply[p].status = 400
          /\ op[p].error.class = "WisprAuthError"
          /\ op[p].error.message = "Failed to refresh access token. Please sign in again."
          /\ op[p].svcReqs = 0

\* ------------------------------------------------------------------------
\* C31: buildContext substitutes defaults at the top level only: an object the caller
\* supplies for a nested field (an app with only a name, textbox contents with only
\* before_text) is sent exactly as supplied, none of the inner fields it lacks is
\* taken from the default
\* ------------------------------------------------------------------------
\* p is a transcribe that was sent with an object for the nested field f
SuppliedNested(p, f) ==
    /\ op[p].kind = "transcribe" /\ op[p].svcReqs > 0
    /\ ContextField(op[p].request.context, f) \notin {"undefined", "null"}

C31_NestedValuesNotMerged ==
    \A p \in Procs : \A f \in NestedFields :
        SuppliedNested(p, f) =>
            LET supplied == ContextField(op[p].request.context, f)
                built == op[p].payload.context[f] IN
            /\ built = supplied
            /\ InnerFields(built) = InnerFields(supplied)
            /\ InnerFields(built) \cap (InnerFields(ContextDefault(f)) \ InnerFields(supplied)) = {}

\* a request whose context carries an app with only a name was sent with that app:
\* bundle_id, type and url, which the default app carries, are not in it
C31_Witness ==
    \E p \in Procs :
        /\ SuppliedNested(p, "app")
        /\ op[p].request.context.fields["app"] = "{name:Mail}"
        /\ op[p].payload.context["app"] = "{name:Mail}"
        /\ InnerFields(op[p].payload.context["app"]) = {"name"}
        /\ InnerFields(ContextDefault("app")) = {"name", "bundle_id", "type", "url"}
        /\ op[p].payload.context["textbox_contents"] = "null"

\* ------------------------------------------------------------------------
\* C32: retry(fn, {maxRetries}) with maxRetries >= 0 invokes fn one invocation at a
\* time and at most maxRetries + 1 times; it stops at the first invocation that
\* succeeds and returns its value; when all maxRetries + 1 invocations have failed it
\* throws the error of the last one; it ends whenever every invocation of fn ends.
\* ------------------------------------------------------------------------
RetryInvocations ==
    LET r == retrying
        maxRetries == MaxRetriesOf(r.options) IN
    (r.pc # "idle" /\ maxRetries >= 0) =>
        /\ r.calls \in 1..(maxRetries + 1)
        /\ r.calls - r.settled = (IF r.pc = "fn_wait" THEN 1 ELSE 0)
        /\ r.pc = "done" => r.outcome \in {"returned", "threw"}
        /\ r.outcome = "returned" =>
              /\ r.pc = "done"
              /\ r.value = r.calls
              /\ r.lastError = r.calls - 1
        /\ r.outcome = "threw" =>
              /\ r.pc = "done"
              /\ r.calls = maxRetries + 1
              /\ r.thrown = r.calls

RetryEnds == (retrying.pc # "idle") ~> (retrying.pc = "done")

C32_RetryBounded == []RetryInvocations /\ RetryEnds

\* retry(fn, {maxRetries: 2}) has invoked fn three times, each failed, and it has
\* thrown the error of the third invocation
C32_Witness ==
    /\ retrying.options.maxRetries = <<2>>
    /\ retrying.pc = "done" /\ retrying.outcome = "threw"
    /\ retrying.calls = 3 /\ retrying.settled = 3
    /\ retrying.thrown = 3

\* ------------------------------------------------------------------------
\* C33: in retry the wait after the k-th failed attempt (k from 0, k < maxRetries) is
\* min(baseDelayMs * 2^k, maxDelayMs); the waits never decrease and never exceed
\* maxDelayMs; there is no wait after the last failed attempt nor after a success.
\* ------------------------------------------------------------------------
\* the waits so far are those of the failed attempts 0, 1, ...
WaitsExact ==
    LET r == retrying IN
    \A k \in 1..Len(r.waits) :
        /\ k - 1 < MaxRetriesOf(r.options)
        /\ r.waits[k] = MathMin(BaseDelayMsOf(r.options) * (2 ^ (k - 1)),
                                MaxDelayMsOf(r.options))
        /\ r.waits[k] <= MaxDelayMsOf(r.options)

\* one wait per failed attempt but the last, none after a success
WaitsCounted ==
    LET r == retrying
        failed == IF r.outcome = "returned" THEN r.settled - 1 ELSE r.settled IN
    /\ r.pc = "sleeping" => Len(r.waits) = failed
    /\ r.pc = "fn_wait" => Len(r.waits) = failed
    /\ r.outcome = "returned" => Len(r.waits) = failed
    /\ r.outcome = "threw" /\ r.calls > 0 =>
          /\ Len(r.waits) = failed - 1
          /\ Len(r.waits) = MaxRetriesOf(r.options)

WaitsNonDecreasing ==
    \A k \in 1..(Len(retrying.waits) - 1) : retrying.waits[k] <= retrying.waits[k + 1]

\* the statement for every option record
C33_BackoffWaits == WaitsExact /\ WaitsCounted /\ WaitsNonDecreasing

\* the statement for the option records whose baseDelayMs is not negative
C33_BackoffWaitsFromNonNegativeBase ==
    /\ WaitsExact
    /\ WaitsCounted
    /\ BaseDelayMsOf(retrying.options) >= 0 => WaitsNonDecreasing

\* retry(fn, {maxRetries: 3, baseDelayMs: 1, maxDelayMs: 3}) has failed four times and
\* thrown, having waited 1, 2 and 3: the third wait is capped, there is no fourth
C33_Witness ==
    /\ retrying.options = RetryOptions(<<3>>, <<1>>, <<3>>)
    /\ retrying.pc = "done" /\ retrying.outcome = "threw"
    /\ retrying.settled = 4
    /\ retrying.waits = <<1, 2, 3>>

\* ------------------------------------------------------------------------
\* C37: retry invokes fn at least once and never throws a value that fn did not throw,
\* for every option record, maxRetries = 0 (one invocation, no wait) and a negative
\* maxRetries included.
\* ------------------------------------------------------------------------
RetryEnded == retrying.pc = "done"

C37_InvokesOnceThrowsOnlyFnErrors ==
    RetryEnded =>
        /\ retrying.calls >= 1
        /\ retrying.outcome = "threw" => retrying.thrown \in 1..retrying.calls
        /\ MaxRetriesOf(retrying.options) = 0 =>
              retrying.calls = 1 /\ retrying.waits = <<>>

\* the part that holds: with maxRetries >= 0 fn is invoked at least once and what is
\* thrown is an error of fn
C37_FromNonNegativeMaxRetries ==
    RetryEnded /\ MaxRetriesOf(retrying.options) >= 0 =>
        /\ retrying.calls >= 1
        /\ retrying.outcome = "threw" => retrying.thrown \in 1..retrying.calls
        /\ MaxRetriesOf(retrying.options) = 0 =>
              retrying.calls = 1 /\ retrying.waits = <<>>

\* ------------------------------------------------------------------------
\* C34: a WisprClient built from a raw accessToken and userUuid, without an auth, never
\* sends a request to the identity provider and never refreshes: the token it attaches
\* to a request is the one given to its constructor or to its latest updateAccessToken,
\* however much time has passed.
\* ------------------------------------------------------------------------
\* client c was built without an auth
Manual(c) == clients[c].built /\ ~clients[c].auth

\* the calls of a client without auth send nothing to the identity provider
ManualSendsNoIdpRequest ==
    \A p \in Procs :
        (op[p].kind \in ClientKinds /\ Manual(op[p].client)) =>
            /\ op[p].pc # "refresh_wait"
            /\ op[p].refreshReqs + op[p].signInReqs + op[p].logoutReqs + op[p].statusReqs = 0

ManualTokenStep(c) ==
    \* its token is first the one of the options ...
    /\ ~clients[c].built /\ clients'[c].built /\ ~clients'[c].auth =>
          \E p \in Procs :
              /\ op[p].pc = "idle" /\ op'[p].kind = "new"
              /\ clients'[c].accessToken = op'[p].options.accessToken
    \* ... and changes with updateAccessToken only, to its argument
    /\ Manual(c) /\ clients'[c].accessToken # clients[c].accessToken =>
          \E p \in Procs :
              /\ op[p].pc = "idle" /\ op'[p].kind = "updateAccessToken"
              /\ op'[p].client = c
              /\ clients'[c].accessToken = op'[p].newToken
    \* a request of the client carries that token, and its calls leave the session alone
    /\ \A p \in Procs :
          (Manual(c) /\ op'[p].kind \in ClientKinds /\ op'[p].client = c /\ op'[p] # op[p]) =>
              /\ op'[p].svcReqs > op[p].svcReqs =>
                    /\ op'[p].attached = clients[c].accessToken
                    /\ op'[p].kind = "transcribe" =>
                          op'[p].payload.access_token = clients[c].accessToken
              /\ currentSession' = currentSession
              /\ issued' = issued
              /\ clients' = clients

C34_ManualClientNeverRefreshes ==
    []ManualSendsNoIdpRequest /\ [][\A c \in Clients : ManualTokenStep(c)]_vars

\* a client without auth has sent a warmup with its token 1 and no refresh, although
\* the session of the auth, whose token is 2, is past its expiry
C34_Witness ==
    \E p \in Procs :
        /\ op[p].kind = "warmup" /\ op[p].pc = "service_wait"
        /\ Manual(op[p].client)
        /\ clients[op[p].client].accessToken = 1
        /\ op[p].attached = 1 /\ op[p].refreshReqs = 0
        /\ currentSession # <<>> /\ currentSession[1].accessToken = 2
        /\ isSessionExpired(currentSession, now, 0)

\* ------------------------------------------------------------------------
\* C35: what getConfig() returns contains neither the access token nor the inference
\* API key, and is the same for two clients that differ in these two only, before and
\* after any refresh or updateAccessToken.
\* ------------------------------------------------------------------------
Secrets == {"accessToken", "basetenApiKey"}

ConfigHidesSecrets ==
    \A c \in Clients :
        clients[c].built =>
            /\ DOMAIN getConfig(clients[c]) \cap Secrets = {}
            /\ \A f \in {"userUuid", "apiBaseUrl", "basetenUrl", "clientVersion"} :
                  getConfig(clients[c])[f] # clients[c].basetenApiKey

\* clients that agree on everything but the two secrets get the same answer
ConfigIndependentOfSecrets ==
    \A c, d \in Clients :
        /\ clients[c].built /\ clients[d].built
        /\ clients[c].userUuid = clients[d].userUuid
        /\ clients[c].basetenUrl = clients[d].basetenUrl
        => getConfig(clients[c]) = getConfig(clients[d])

\* the answer of a client never changes
ConfigStep(c) == clients[c].built => getConfig(clients'[c]) = getConfig(clients[c])

C35_GetConfigHidesSecrets ==
    [](ConfigHidesSecrets /\ ConfigIndependentOfSecrets) /\ [][\A c \in Clients : ConfigStep(c)]_vars

\* two clients built with different tokens and different keys, the first one's token
\* just updated, give the same configuration
C35_Witness ==
    /\ clients[1].built /\ clients[2].built
    /\ ~clients[1].auth /\ ~clients[2].auth
    /\ clients[1].accessToken # clients[2].accessToken
    /\ clients[1].basetenApiKey = "key" /\ clients[2].basetenApiKey = "otherKey"
    /\ \E p \in Procs :
          /\ op[p].kind = "updateAccessToken" /\ op[p].pc = "done" /\ op[p].client = 1
          /\ op[p].newToken = clients[1].accessToken
    /\ getConfig(clients[1]) = getConfig(clients[2])
    /\ getConfig(clients[1]).userUuid = "uuid"

\* ------------------------------------------------------------------------
\* C36: signInWithWisprApi fails with WisprAuthError and leaves the stored session as
\* it is when the 2xx response carries a non-null error field or an access token whose
\* claims cannot be decoded; when it succeeds, userUuid and expiresAt of the stored
\* session are the claims sub and exp of the access token.
\* ------------------------------------------------------------------------
\* the fetch of signInWithWisprApi p is answered in this step with a readable 2xx
VendorAnswered(p) ==
    /\ op[p].pc = "vendor_wait" /\ op'[p].pc = "done"
    /\ reply'[p].type = "response" /\ ResponseOk(reply'[p].status) /\ reply'[p].read = "ok"

\* the token has three parts and its payload is the JSON text of an object
ClaimsDecodable(text) == Len(text) = 3 /\ text[2].text \in {"{}", "claims"}

VendorFails(p) ==
    /\ op'[p].error.class = "WisprAuthError"
    /\ currentSession' = currentSession

VendorSucceeds(p) ==
    /\ op'[p].error = NoError
    /\ currentSession' # <<>>
    /\ op'[p].retSession = currentSession'
    /\ currentSession'[1].userUuid = op'[p].vendorBody.text[2].sub
    /\ currentSession'[1].expiresAt = op'[p].vendorBody.text[2].exp

C36_VendorSignIn ==
    [][\A p \in Procs :
          VendorAnswered(p) =>
              IF op'[p].vendorBody.error # "null" \/ ~ClaimsDecodable(op'[p].vendorBody.text)
              THEN VendorFails(p)
              ELSE VendorSucceeds(p)]_vars

\* the part that holds: an error field that is a non-empty string, and a token that
\* has not three parts or whose payload is empty, not base64 or not JSON text
C36_NonEmptyErrorOrUnreadableToken ==
    [][\A p \in Procs :
          VendorAnswered(p) =>
              LET body == op'[p].vendorBody IN
              /\ body.error \notin {"null", ""}
                   \/ Len(body.text) # 3
                   \/ body.text[2].text \in {"", "notBase64", "notJson"}
                 => VendorFails(p)
              /\ op'[p].error = NoError => VendorSucceeds(p)]_vars

====
